---- MODULE Spec2Model ----
(***************************************************************************)
(* A state-machine model of the SBLD24 notebooks.                          *)
(*                                                                         *)
(*  - the RDKit virtual-screening notebook (src/unnamed/part_000): the     *)
(*    kernel's globals are the state, each code cell is one action, run in *)
(*    document order; a cell that raises stops the run.  Specification:    *)
(*    Spec.                                                                *)
(*  - the PubChem notebook (src/Practice2-PubChem.ipynb, first notebook of *)
(*    the file): its four request cells.  Specification: SpecPubChem.      *)
(*  - the QSAR notebook (same file, second notebook): the cells of step 1, *)
(*    from the cleaning of the sheet to the tuning loop, and of step 2,    *)
(*    which scores the candidates the screening notebook saved.            *)
(*    Specification: SpecQSAR.                                             *)
(*  - the example alignment of the screening notebook (mol2 on mol1), one  *)
(*    loop iteration per step.  Specification: SpecAlignment.              *)
(*                                                                         *)
(* Library calls (RDKit, pandas, numpy, requests) are modelled by what     *)
(* they do on the abstracted data; where a library leaves the outcome open *)
(* (the order of ties of an unstable sort, a random embedding, a network   *)
(* answer) the action chooses among the outcomes.                          *)
(***************************************************************************)
EXTENDS Integers, Sequences, FiniteSets, TLC

(***************************************************************************)
(* Bounds of the model.                                                    *)
(***************************************************************************)
\* Length of the modelled bit vectors (MACCS has 167 bits, Morgan 2048).
NBits == 3
\* Alignment scores (RMSD-like floats) range over 1..NScore.
NScore == 2
\* Short corpora have 0..MaxRows rows.
MaxRows == 3
\* Long corpora have TopK+1 .. TopK+MaxExtra rows.
MaxExtra == 1
\* Short toxicity sheets have 0..MaxTox rows.
MaxTox == 3
\* Rows of the less populated class in the sheets around desired_size.
MinorRows == 2
\* mol2 gets 0..MaxConfs conformers in the example alignment.
MaxConfs == 4

(***************************************************************************)
(* Program constants.                                                      *)
(***************************************************************************)
\* dataset.sort_values(...)[:10]
TopK == 10
\* embed_optimize_align_molecule(x, query_h, num_conformers=2)
NumConformers == 2
\* conditions = [molecular_weight <= 500, n_hba <= 10, n_hbd <= 5, logp <= 5, TPSA < 140]
MW_MAX == 500
HBA_MAX == 10
HBD_MAX == 5
LOGP_MAX == 5
TPSA_LIMIT == 140
\* ro5_fulfilled = sum(conditions) > 4
RO5_SUM_ABOVE == 4
\* hits.query('similarity < 90').sample(9)
SAMPLE_N == 9
\* desired_size = 40
DESIRED_SIZE == 40
\* train_test_split(X, Y, test_size=0.2, random_state=42), in percent
TEST_SIZE_PCT == 20
\* cross_val_score(..., cv=5, ...)
N_SPLITS == 5
\* RandomForestRegressor(n_estimators=100, random_state=42)
N_ESTIMATORS == 100
RANDOM_STATE == 42
\* for i in range(5): performance_by_hyperparameter(n_estimators, i)
TUNE_SEEDS == 5
\* AllChem.EmbedMultipleConfs(mol2, numConfs=25)
MOL2_NUM_CONFS == 25
\* fig, axes = plt.subplots(2, 5, figsize=(15, 6))
GRID_ROWS == 2
GRID_COLS == 5

VARIABLES
    pc,             \* the next cell of the screening notebook ("halt": a cell raised)
    dataset,        \* the DataFrame: column name -> sequence of row values
    MACCQuery,      \* MACCS fingerprint of the query molecule
    MorganQuery,    \* Morgan fingerprint of the query molecule
    out,            \* the output of the last cell run: the ranked view it shows
                    \* (by: the column ranked, "" when none; rows: row numbers)
    raised,         \* the exception that stopped the run and the cell it left
    nullUse,        \* library calls that were handed a None molecule
    progress,       \* rows the shape batch has finished (the tqdm bar)
    ro5_properties, \* the frame of Ro5 descriptor records, <<>> before its cell
    chembl_requests,\* the request of the ChEMBL cell and what came back
    hits_csv,       \* hits.csv: whether it was written, and its number of rows
    query_h,        \* the query molecule with hydrogens and its 3D conformer
    conformers,     \* per row the shape batch reached: what embedding the
                    \* molecule and aligning each conformer produced
    o3a_calls,      \* per row the shape batch reached: the GetO3A calls made
    MoleculeDatabase,               \* dataset and ro5_properties side by side
    MoleculeDatabase_ro5_fulfilled, \* its rows whose ro5_fulfilled is True
    MoleculeDatabase_ro5_violated,  \* its rows whose ro5_fulfilled is False
    ro5_stdout,     \* the three counts the filter cell prints
    \* the example alignment of the screening notebook (mol2 against mol1)
    al_pc,          \* where that cell is: "start", "loop", "print", then "call"
    mol2_scores,    \* what O3A.Align() returns for each conformer of mol2
    loop_cid,       \* the conformers the loop has processed
    best_alignment_score,
    align_stdout,   \* what the cell printed
    fn_input,       \* the conformers given to embed_optimize_align_molecule
    fn_result,      \* what it returned
    \* the working directory both notebooks share
    lipinski_csv,   \* MoleculeDatabase_compounds_lipinski.csv
    \* the PubChem notebook
    pub_pc,         \* the next cell of the PubChem notebook
    name,           \* the compound name looked up
    cid,            \* the PubChem CID
    mol_weight,     \* the molecular weight
    requests,       \* the requests issued so far: the cell and its URL's argument
    stdout,         \* what the cells printed or displayed, in order
    pub_raised,     \* the exception that stopped the PubChem run and its cell
    \* the QSAR notebook
    q_pc,           \* the next cell of the QSAR notebook
    df_tox,         \* the table read from LiverToxdf.xlsx: a sequence of rows
    df_tox_cleaned, \* the cleaned table, later the merged one
    severity_counts,        \* <<class, count>> pairs by class, ascending
    most_populated_class,   \* <<c>> once assigned
    balanced_df,    \* the undersampled table
    severity_counts2,       \* the counts of balanced_df
    df_maccs,       \* the fingerprint table
    X, Y,           \* the features and the target (Y keeps the row labels)
    X_train, X_test, Y_train, Y_test,
    random_forest_model,    \* the global estimator: parameters, rows fitted on
    fits,           \* every estimator fit so far: who fitted, on which rows,
                    \* and the rows it was then scored on
    Dataset,        \* the candidates read from the screening notebook's file
    Dataset2,       \* its chembl_id and smiles columns
    candidates,     \* the candidates' fingerprints, later their predictions
    q_raised        \* the exception that stopped the QSAR run and its cell

screenVars == <<pc, dataset, MACCQuery, MorganQuery, out, raised, nullUse,
                progress, ro5_properties, chembl_requests, hits_csv, query_h,
                conformers, o3a_calls, MoleculeDatabase,
                MoleculeDatabase_ro5_fulfilled, MoleculeDatabase_ro5_violated,
                ro5_stdout>>
embedVars == <<conformers, o3a_calls>>
dbVars == <<MoleculeDatabase, MoleculeDatabase_ro5_fulfilled,
            MoleculeDatabase_ro5_violated, ro5_stdout>>
pubVars == <<pub_pc, name, cid, mol_weight, requests, stdout, pub_raised>>
qsarVars == <<q_pc, df_tox, df_tox_cleaned, severity_counts,
              most_populated_class, balanced_df, severity_counts2, df_maccs,
              X, Y, X_train, X_test, Y_train, Y_test, random_forest_model,
              fits, q_raised, Dataset, Dataset2, candidates>>
candVars == <<Dataset, Dataset2, candidates>>
alignVars == <<al_pc, mol2_scores, loop_cid, best_alignment_score, align_stdout,
               fn_input, fn_result>>
vars == <<screenVars, pubVars, qsarVars, alignVars, lipinski_csv>>

(***************************************************************************)
(* Small helpers.                                                          *)
(***************************************************************************)
Min(a, b) == IF a <= b THEN a ELSE b

Range(s) == {s[i] : i \in DOMAIN s}

RECURSIVE Perms(_)
\* All orders of a finite set, as sequences.
Perms(S) ==
    IF S = {} THEN {<<>>}
    ELSE UNION {{<<x>> \o p : p \in Perms(S \ {x})} : x \in S}

RECURSIVE Ascending(_)
\* The elements of a finite set of integers in increasing order.
Ascending(S) ==
    IF S = {} THEN <<>>
    ELSE LET m == CHOOSE x \in S : \A y \in S : x <= y
         IN <<m>> \o Ascending(S \ {m})

(***************************************************************************)
(* Values of a score column.  A float is the fraction n/d (d > 0): IEEE    *)
(* division is correctly rounded, so two quotients of small integers are   *)
(* equal as doubles exactly when they are equal as fractions.              *)
(***************************************************************************)
Num(n, d) == [k |-> "num", n |-> n, d |-> d]
NaN == [k |-> "nan", n |-> 0, d |-> 0]
NoneVal == [k |-> "none", n |-> 0, d |-> 0]
Raise(exc) == [k |-> exc, n |-> 0, d |-> 0]

IsNum(a) == a.k = "num"
\* Python's a < b, a <= b, a == b on floats; False when either is NaN.
\* (None < x raises TypeError: no order either.)
Lt(a, b) == IsNum(a) /\ IsNum(b) /\ a.n * b.d < b.n * a.d
Leq(a, b) == IsNum(a) /\ IsNum(b) /\ a.n * b.d <= b.n * a.d
Eq(a, b) == IsNum(a) /\ IsNum(b) /\ a.n * b.d = b.n * a.d
\* pandas.isna
IsNA(a) == a.k \in {"nan", "none"}

(***************************************************************************)
(* Molecules.  A SMILES entry is well formed or not; a well-formed one     *)
(* denotes a molecular graph, abstracted to what the notebook reads of it: *)
(*   frags : the MACCS substructure keys present in it;                    *)
(*   envs  : its circular atom environments (radius 2);                    *)
(*   desc  : its Ro5 descriptors;                                          *)
(*   shape : the outcomes its (random) conformer embedding and alignment   *)
(*           against the query can have: each a sequence, one entry per    *)
(*           conformer produced, GetO3A raising ValueError or Align()'s    *)
(*           score.                                                        *)
(***************************************************************************)
Bits == 1..NBits
Envs == 1..(NBits + 1)
None == [isNone |-> TRUE]
IsNone(m) == m.isNone

\* Chem.MolFromSmiles: None on a malformed string.
MolFromSmiles(s) ==
    IF s.wellformed THEN [isNone |-> FALSE, g |-> s.g] ELSE None

\* MACCSkeys.GenMACCSKeys: bit i is set iff key i matches the molecule.
GenMACCSKeys(m) == [i \in Bits |-> IF i \in m.g.frags THEN 1 ELSE 0]

\* AllChem.GetMorganFingerprintAsBitVect(x, 2, nBits): every environment is
\* hashed to a bit position modulo the vector length; collisions share a bit.
GetMorganFingerprintAsBitVect(m) ==
    [i \in Bits |-> IF \E e \in m.g.envs : (e % NBits) + 1 = i THEN 1 ELSE 0]

NumOnBits(a) == Cardinality({i \in DOMAIN a : a[i] = 1})
NumOnBitsInCommon(a, b) == Cardinality({i \in DOMAIN a : a[i] = 1 /\ b[i] = 1})

\* A Tanimoto whose denominator forgets to subtract the common bits.
TanimotoNoInclusionExclusion(a, b) ==
    LET x == NumOnBitsInCommon(a, b)
        y == NumOnBits(a)
        z == NumOnBits(b)
    IN IF y + z = 0 THEN Num(1, 1) ELSE Num(x, y + z)

\* A Tanimoto that is 0 on two empty vectors.
TanimotoZeroOnEmpty(a, b) ==
    LET x == NumOnBitsInCommon(a, b)
        y == NumOnBits(a)
        z == NumOnBits(b)
    IN IF y + z - x = 0 THEN Num(0, 1) ELSE Num(x, y + z - x)

\* A Tversky-like score that divides by the first argument's bits only.
TanimotoAsymmetric(a, b) ==
    LET x == NumOnBitsInCommon(a, b)
        y == NumOnBits(a)
    IN IF y = 0 THEN Num(1, 1) ELSE Num(x, y)

\* DataStructs.TanimotoSimilarity(a, b): x / (y + z - x), and 1.0 when no bit
\* is set in either vector.
TanimotoSimilarity(a, b) ==
    LET x == NumOnBitsInCommon(a, b)
        y == NumOnBits(a)
        z == NumOnBits(b)
    IN IF y + z - x = 0 THEN Num(1, 1) ELSE Num(x, y + z - x)

\* DataStructs.FingerprintSimilarity(a, b): folds the longer vector when the
\* lengths differ (they never do here), then the default metric, Tanimoto.
FingerprintSimilarity(a, b) == TanimotoSimilarity(a, b)

(***************************************************************************)
(* Shape screening: embed_optimize_align_molecule.                         *)
(***************************************************************************)
Conf(s) == [raises |-> FALSE, score |-> s]
ConfRaise == [raises |-> TRUE, score |-> 0]
ConfResults == {ConfRaise} \cup {Conf(s) : s \in 1..NScore}
\* Every outcome of EmbedMultipleConfs(numConfs=num_conformers) followed by the
\* alignments: 0..num_conformers conformers, each raising or scoring.
AllOutcomes == UNION {[1..n -> ConfResults] : n \in 0..NumConformers}

RECURSIVE SeqMin(_)
SeqMin(s) ==
    IF Len(s) = 1 THEN s[1] ELSE Min(s[1], SeqMin(Tail(s)))

\* np.min(scores): ValueError on an empty list.
np_min(scores) ==
    IF scores = <<>> THEN Raise("ValueError") ELSE Num(SeqMin(scores), 1)

RECURSIVE AlignLoopSkipFailed(_, _, _)
\* A loop that drops the conformer that failed and goes on with the next.
AlignLoopSkipFailed(o, k, scores) ==
    IF k > Len(o) THEN np_min(scores)
    ELSE IF o[k].raises THEN AlignLoopSkipFailed(o, k + 1, scores)
    ELSE AlignLoopSkipFailed(o, k + 1, Append(scores, o[k].score))

RECURSIVE AlignLoop(_, _, _)
\* for cid in range(mol.GetNumConformers()): try GetO3A except ValueError:
\* return None; scores.append(O3A.Align()); then return np.min(scores).
\* k is the loop's conformer id, counted from 1.
AlignLoop(o, k, scores) ==
    IF k > Len(o) THEN np_min(scores)
    ELSE IF o[k].raises THEN NoneVal
    ELSE AlignLoop(o, k + 1, Append(scores, o[k].score))

RECURSIVE O3ACalls(_, _)
\* The AllChem.GetO3A calls that loop makes from conformer k on: one per
\* conformer up to and including the first that raises.
O3ACalls(o, k) ==
    IF k > Len(o) THEN 0
    ELSE IF o[k].raises THEN 1
    ELSE 1 + O3ACalls(o, k + 1)

\* o: what embedding this molecule and aligning its conformers produced.
\* Chem.AddHs(None) raises Boost's ArgumentError.
embed_optimize_align_molecule(m, o) ==
    IF IsNone(m) THEN Raise("ArgumentError") ELSE AlignLoop(o, 1, <<>>)

RECURSIVE EmbedChoices(_)
\* One embedding outcome per row, each among those the row's molecule allows.
EmbedChoices(mols) ==
    IF mols = <<>> THEN {<<>>}
    ELSE LET last == mols[Len(mols)]
             poss == IF IsNone(last) THEN {<<>>} ELSE last.g.shape
         IN {Append(c, o) : c \in EmbedChoices(SubSeq(mols, 1, Len(mols) - 1)),
                            o \in poss}

\* Series.apply's result column: pandas converts the returned objects, and a
\* column of floats and None becomes float64 with NaN for None; a column of
\* None only stays an object column of None.
SeriesFromApply(res) ==
    IF \E i \in DOMAIN res : IsNum(res[i])
    THEN [i \in DOMAIN res |-> IF res[i].k = "none" THEN NaN ELSE res[i]]
    ELSE res

(***************************************************************************)
(* Ranking: DataFrame.sort_values(by=col, ascending=asc) with the default  *)
(* kind='quicksort' and na_position='last'.  pandas' nargsort sorts the    *)
(* non-null keys with numpy's argsort and appends the null rows in row     *)
(* order.  quicksort is not a stable kind: rows with equal keys come out   *)
(* in an order the numpy build decides.                                    *)
(***************************************************************************)
RECURSIVE SortedOrders(_, _, _)
SortedOrders(S, col, asc) ==
    IF S = {} THEN {<<>>}
    ELSE LET first == {i \in S : \A j \in S :
                          IF asc THEN Leq(col[i], col[j]) ELSE Leq(col[j], col[i])}
         IN {p \o r : p \in Perms(first), r \in SortedOrders(S \ first, col, asc)}

\* A sort that puts the missing values first.
nargsort_na_first(col, asc) ==
    LET nn == {i \in DOMAIN col : ~(col[i].k \in {"nan", "none"})}
        na == {i \in DOMAIN col : col[i].k \in {"nan", "none"}}
    IN {Ascending(na) \o v : v \in SortedOrders(nn, col, asc)}

\* sort_values' argsort with na_position='last': the values that are not
\* missing in order, then the missing ones in the frame's order.
nargsort(col, asc) ==
    LET nn == {i \in DOMAIN col : ~IsNA(col[i])}
        na == {i \in DOMAIN col : IsNA(col[i])}
    IN {v \o Ascending(na) : v \in SortedOrders(nn, col, asc)}

\* A ranking that always sorts ascending.
sort_values_always_ascending(col, asc) == nargsort(col, TRUE)

sort_values(col, asc) == nargsort(col, asc)

\* view[:10]
head(v) == SubSeq(v, 1, Min(TopK, Len(v)))

(***************************************************************************)
(* Ro5 descriptors: calculate_ro5_properties.                              *)
(***************************************************************************)
CountTrue(conds) == Cardinality({i \in DOMAIN conds : conds[i]})

calculate_ro5_properties(m) ==
    LET molecular_weight == m.g.desc.mw
        n_hba == m.g.desc.hba
        n_hbd == m.g.desc.hbd
        logp == m.g.desc.logp
        TPSA == m.g.desc.tpsa
        conditions == <<molecular_weight <= MW_MAX, n_hba <= HBA_MAX,
                        n_hbd <= HBD_MAX, logp <= LOGP_MAX, TPSA < TPSA_LIMIT>>
        ro5_fulfilled == CountTrue(conditions) > RO5_SUM_ABOVE
    IN [molecular_weight |-> molecular_weight, n_hba |-> n_hba, n_hbd |-> n_hbd,
        logp |-> logp, TPSA |-> TPSA, ro5_fulfilled |-> ro5_fulfilled]

(***************************************************************************)
(* The Ro5 filter: MoleculeDatabase, its two parts, and the saved file.    *)
(* A table is a sequence of rows, a row a function from column names.      *)
(***************************************************************************)
\* pd.concat([df, props], axis=1): both carry the same index, so row i of
\* the one is joined with row i of the other.  chembl_id, the first column
\* of the corpus file, is the record's number in the corpus.
concat(df, props) ==
    [i \in 1..Len(df["smiles"]) |->
        [c \in DOMAIN df |-> df[c][i]] @@ props[i]
            @@ ("index" :> i) @@ ("chembl_id" :> i)]

\* t[c]: one column of a table.
Column(t, c) == [i \in DOMAIN t |-> t[i][c]]

RECURSIVE BoolIndex(_, _)
\* t[mask]: the rows whose mask entry is True, in the table's order.
BoolIndex(t, mask) ==
    IF t = <<>> THEN <<>>
    ELSE LET rest == BoolIndex(Tail(t), Tail(mask))
         IN IF Head(mask) THEN <<Head(t)>> \o rest ELSE rest

\* ~mask on a boolean column.
Invert(mask) == [i \in DOMAIN mask |-> ~mask[i]]

\* A filter that keeps every row.
ro5_all_rows(db) == db
\* MoleculeDatabase[MoleculeDatabase['ro5_fulfilled']]
ro5_fulfilled_rows(db) == BoolIndex(db, Column(db, "ro5_fulfilled"))

\* A second filter that lost its negation.
ro5_violated_unnegated(db) == BoolIndex(db, Column(db, "ro5_fulfilled"))
\* MoleculeDatabase[~MoleculeDatabase['ro5_fulfilled']]
ro5_violated_rows(db) == BoolIndex(db, Invert(Column(db, "ro5_fulfilled")))

\* DataFrame.to_csv: the index goes out as a first, unnamed column; numbers,
\* booleans and strings are written as text that reads back to the same
\* value; a column of Python objects is written as their repr.
ObjectColumns == {"rdkitmol", "MACCS_fps", "Morgan_fps"}
ObjectRepr == "<rdkit object>"
to_csv(t) ==
    [i \in DOMAIN t |->
        [c \in (DOMAIN t[i]) \ {"index"} |->
            IF c \in ObjectColumns THEN ObjectRepr ELSE t[i][c]]
        @@ ("Unnamed: 0" :> t[i]["index"])]

(***************************************************************************)
(* The inputs: the query molecule and the corpus read from                 *)
(* example-dataset.csv.                                                    *)
(***************************************************************************)
DescVals ==
    [mw : {MW_MAX, MW_MAX + 1}, hba : {HBA_MAX, HBA_MAX + 1},
     hbd : {HBD_MAX, HBD_MAX + 1}, logp : {LOGP_MAX, LOGP_MAX + 1},
     tpsa : {TPSA_LIMIT - 1, TPSA_LIMIT}]
OKDesc ==
    [mw |-> MW_MAX, hba |-> HBA_MAX, hbd |-> HBD_MAX, logp |-> LOGP_MAX,
     tpsa |-> TPSA_LIMIT - 1]

Graph(frags, envs, desc, shape) ==
    [frags |-> frags, envs |-> envs, desc |-> desc, shape |-> shape]
DefaultGraph == Graph({1, 2}, {1}, OKDesc, {<<Conf(1)>>})
Smiles(g) == [wellformed |-> TRUE, g |-> g]
\* A string RDKit cannot parse (the graph field is never read).
Malformed == [wellformed |-> FALSE, g |-> DefaultGraph]

\* One-row corpora: every key set, every environment set, every descriptor
\* combination around the thresholds, every embedding outcome.
RichSmiles ==
    {Smiles([DefaultGraph EXCEPT !.frags = F]) : F \in SUBSET Bits}
    \cup {Smiles([DefaultGraph EXCEPT !.envs = E]) : E \in SUBSET Envs}
    \cup {Smiles([DefaultGraph EXCEPT !.desc = d]) : d \in DescVals}
    \cup {Smiles([DefaultGraph EXCEPT !.shape = AllOutcomes])}
RichQueries ==
    {Smiles([DefaultGraph EXCEPT !.frags = F]) : F \in SUBSET Bits}
    \cup {Smiles([DefaultGraph EXCEPT !.envs = E]) : E \in SUBSET Envs}

\* Short corpora over a few entries: molecules that tie, one whose alignment
\* raises, one that yields no conformer, one that violates a single Ro5
\* condition, and a malformed string.
\* sGood1 is flexible: ETKDG() is not seeded, and its conformers come out
\* close to the query in some embeddings and less close in others.
sGood1 ==
    Smiles(Graph({1, 2}, {1}, OKDesc, {<<Conf(2), Conf(1)>>, <<Conf(2), Conf(2)>>}))
sGood2 == Smiles(Graph({1}, {1, 2}, [OKDesc EXCEPT !.mw = MW_MAX + 1], {<<Conf(1)>>}))
sIncompat == Smiles(Graph({2}, {2}, OKDesc, {<<ConfRaise>>, <<Conf(1), ConfRaise>>}))
sNoConf == Smiles(Graph({1, 2}, {1}, OKDesc, {<<>>}))
ShortSmiles == {sGood1, sGood2, sIncompat, sNoConf, Malformed}
ShortCorpora == UNION {[1..n -> ShortSmiles] : n \in 0..MaxRows}

\* Long corpora, longer than the top-10 slice: five kinds of molecule with
\* pairwise different scores, repeated in turn, with the incompatible molecule
\* at some of the places 1 and TopK + 1.
LongKinds ==
    <<Smiles(Graph({1, 2}, {1}, OKDesc, {<<Conf(1)>>})),
      Smiles(Graph({1}, {1, 2}, OKDesc, {<<Conf(2)>>})),
      Smiles(Graph({1, 2, 3}, {1, 2, 3}, OKDesc, {<<Conf(3)>>})),
      Smiles(Graph({1, 3}, {2}, OKDesc, {<<Conf(4)>>})),
      Smiles(Graph({3}, {1, 3}, OKDesc, {<<Conf(5)>>}))>>
\* The alignment score of record i: one score per record of the first TopK,
\* so that the shape ranking has few ties; the records after the first TopK
\* repeat, in kind and score, the records from Len(LongKinds) + 1 on.
LongScore(i) == IF i > TopK THEN i - TopK + Len(LongKinds) ELSE i
LongCorpus(n, P) ==
    [i \in 1..n |->
        IF i \in P THEN sIncompat
        ELSE [LongKinds[((i - 1) % Len(LongKinds)) + 1]
                 EXCEPT !.g.shape = {<<Conf(LongScore(i))>>}]]
\* The n-th descriptor combination around the thresholds, 0 =< n < 32: bit j
\* of n says whether the j-th Ro5 condition is violated.
DescOf(n) ==
    [mw |-> MW_MAX + (n % 2), hba |-> HBA_MAX + ((n \div 2) % 2),
     hbd |-> HBD_MAX + ((n \div 4) % 2), logp |-> LOGP_MAX + ((n \div 8) % 2),
     tpsa |-> (TPSA_LIMIT - 1) + ((n \div 16) % 2)]
\* The shortest long corpus with the descriptor combinations dealt out over
\* its records, from the k-th run of them on.
DescCorpus(k) ==
    [i \in 1..(TopK + 1) |->
        [LongCorpus(TopK + 1, {})[i]
            EXCEPT !.g.desc = DescOf((k * (TopK + 1) + i - 1) % 32)]]
LongCorpora ==
    {LongCorpus(n, P) : n \in (TopK + 1)..(TopK + MaxExtra),
                        P \in SUBSET {1, TopK + 1}}
    \cup {DescCorpus(k) : k \in 0..2}

Inputs ==
    {[corpus |-> <<s>>, query |-> q] : s \in RichSmiles, q \in RichQueries}
    \cup {[corpus |-> c, query |-> Smiles(DefaultGraph)] :
             c \in ShortCorpora \cup LongCorpora}

\* The DataFrame with column c set to the sequence v.
SetCol(df, c, v) ==
    [x \in DOMAIN df \cup {c} |-> IF x = c THEN v ELSE df[x]]
HasCol(df, c) == c \in DOMAIN df
NRows(df) == Len(df["smiles"])
Rows(df) == 1..NRows(df)

\* A name the kernel has not assigned yet.
Unassigned == "<unassigned>"

\* A file that was not written, and one written with n rows.
NoFile == [written |-> FALSE, rows |-> 0]
File(n) == [written |-> TRUE, rows |-> n]

\* query_h = Chem.AddHs(Chem.MolFromSmiles(query_smiles)), embedded with
\* randomSeed=42 and optimized: one conformer, the same in every run.
EmbeddedQuery == [isNone |-> FALSE, g |-> DefaultGraph, conformers |-> <<42>>]

\* MoleculeDatabase_compounds_lipinski.csv: absent, or holding the rows t.
NoCsv == [written |-> FALSE, rows |-> <<>>]
Csv(t) == [written |-> TRUE, rows |-> t]

\* The names the shape batch and the Ro5 cells assign, before those cells.
ScreenLateFresh ==
    /\ conformers = <<>>
    /\ o3a_calls = <<>>
    /\ MoleculeDatabase = <<>>
    /\ MoleculeDatabase_ro5_fulfilled = <<>>
    /\ MoleculeDatabase_ro5_violated = <<>>
    /\ ro5_stdout = <<>>

\* The screening notebook is not open.
ScreenIdle ==
    /\ pc = "off"
    /\ dataset = [c \in {"smiles"} |-> <<>>]
    /\ MACCQuery = <<>>
    /\ MorganQuery = <<>>
    /\ out = [by |-> "", rows |-> <<>>]
    /\ raised = [cell |-> "", exc |-> ""]
    /\ nullUse = {}
    /\ progress = 0
    /\ ro5_properties = <<>>
    /\ chembl_requests = <<>>
    /\ hits_csv = NoFile
    /\ query_h = EmbeddedQuery
    /\ ScreenLateFresh

\* float('inf')
PosInf == Num(1, 0)

\* The example alignment has not started.
AlignIdle ==
    /\ al_pc = "off"
    /\ mol2_scores = <<>>
    /\ loop_cid = 0
    /\ best_alignment_score = PosInf
    /\ align_stdout = <<>>
    /\ fn_input = <<>>
    /\ fn_result = NoneVal

\* The PubChem notebook's kernel before any cell has run.
PubFresh ==
    /\ name = Unassigned
    /\ cid = Unassigned
    /\ mol_weight = Unassigned
    /\ requests = <<>>
    /\ stdout = <<>>
    /\ pub_raised = [cell |-> "", exc |-> ""]

\* The PubChem notebook is not open.
PubIdle ==
    /\ pub_pc = "off"
    /\ PubFresh

\* An estimator that was never fitted.
Unfitted == [fitted |-> FALSE, n_estimators |-> 0, random_state |-> 0, rows |-> {}]

\* The QSAR notebook's kernel before its first cell, the table aside.
QsarFresh ==
    /\ df_tox_cleaned = <<>>
    /\ severity_counts = <<>>
    /\ most_populated_class = <<>>
    /\ balanced_df = <<>>
    /\ severity_counts2 = <<>>
    /\ df_maccs = <<>>
    /\ X = <<>>
    /\ Y = <<>>
    /\ X_train = <<>>
    /\ X_test = <<>>
    /\ Y_train = <<>>
    /\ Y_test = <<>>
    /\ random_forest_model = Unfitted
    /\ fits = {}
    /\ q_raised = [cell |-> "", exc |-> ""]
    /\ Dataset = <<>>
    /\ Dataset2 = <<>>
    /\ candidates = <<>>

\* The QSAR notebook is not open.
QsarIdle ==
    /\ q_pc = "off"
    /\ df_tox = <<>>
    /\ QsarFresh

(***************************************************************************)
(* The state after the cells that load the query and the corpus:           *)
(*   mol = Chem.MolFromSmiles(smiles); MACCQuery = GenMACCSKeys(mol);      *)
(*   dataset = pd.read_csv('example-dataset.csv', ...);                    *)
(*   MorganQuery = GetMorganFingerprintAsBitVect(mol, 2, nBits=2048).      *)
(***************************************************************************)
Init ==
    /\ pc = "chembl"
    /\ chembl_requests = <<>>
    /\ hits_csv = NoFile
    /\ query_h = EmbeddedQuery
    /\ \E inp \in Inputs :
          /\ dataset = [c \in {"smiles"} |-> inp.corpus]
          /\ MACCQuery = GenMACCSKeys(MolFromSmiles(inp.query))
          /\ MorganQuery = GetMorganFingerprintAsBitVect(MolFromSmiles(inp.query))
    /\ out = [by |-> "", rows |-> <<>>]
    /\ raised = [cell |-> "", exc |-> ""]
    /\ nullUse = {}
    /\ progress = 0
    /\ ro5_properties = <<>>
    /\ ScreenLateFresh
    /\ lipinski_csv = NoCsv
    /\ PubIdle
    /\ QsarIdle
    /\ AlignIdle

NoView == [by |-> "", rows |-> <<>>]
View(col, v) == [by |-> col, rows |-> v]
NoExc == [cell |-> "", exc |-> ""]

\* A cell raised: the run stops there, with what the cell assigned before.
Halt(cell, exc) ==
    /\ pc' = "halt"
    /\ raised' = [cell |-> cell, exc |-> exc]
    /\ out' = NoView

(***************************************************************************)
(* Cell: r = requests.get(ChEMBL similarity search of CHEMBL220491);       *)
(* hits = DataFrame of r.json()['molecules'];                              *)
(* hits.query('similarity < 90').sample(9)[...].to_csv('hits.csv').        *)
(* The answer is the network's choice: the hit list (json.molecules: the   *)
(* number of hits with similarity below 90), ChEMBL's JSON error object,   *)
(* an error page that is not JSON, or no answer.  The cell tests neither   *)
(* the status nor the keys: an error object ends in the KeyError of        *)
(* ['molecules'], an error page in r.json(), and too few hits in sample(). *)
(***************************************************************************)
ChemblId == "CHEMBL220491"
ChemblHits ==
    {[status |-> 200, kind |-> "json", json |-> [molecules |-> n]] :
        n \in {SAMPLE_N - 1, SAMPLE_N}}
ChemblErrors ==
    {[status |-> 404, kind |-> "json", json |-> [error_message |-> 0]],
     [status |-> 500, kind |-> "json", json |-> [error_message |-> 0]],
     [status |-> 503, kind |-> "page", json |-> [NotJSON |-> 0]]}
ChemblFailed == {[status |-> 0, kind |-> "failed", json |-> [NotJSON |-> 0]]}

\* What the ChEMBL cell raises on answer a, "" when it runs to its end.
ChemblRaises(a) ==
    IF a.kind = "failed" THEN "ConnectionError"
    ELSE IF a.kind # "json" THEN "JSONDecodeError"
    ELSE IF "molecules" \notin DOMAIN a.json THEN "KeyError"
    ELSE IF a.json.molecules < SAMPLE_N THEN "ValueError"
    ELSE ""

ChEMBLCell ==
    /\ UNCHANGED <<pubVars, qsarVars, alignVars, embedVars, dbVars, lipinski_csv>>
    /\ pc = "chembl"
    /\ \E a \in ChemblHits \cup ChemblErrors \cup ChemblFailed :
          /\ chembl_requests' = <<[cell |-> "chembl", arg |-> ChemblId, answer |-> a]>>
          /\ IF ChemblRaises(a) # ""
             THEN /\ Halt("chembl", ChemblRaises(a))
                  /\ UNCHANGED hits_csv
             ELSE /\ hits_csv' = File(SAMPLE_N)
                  /\ pc' = "maccs"
                  /\ UNCHANGED <<raised, out>>
    /\ UNCHANGED <<dataset, MACCQuery, MorganQuery, nullUse, progress, ro5_properties>>
    /\ UNCHANGED query_h

(***************************************************************************)
(* Cell: dataset['rdkitmol'], dataset['MACCS_fps'], dataset['MACCS_ts'],   *)
(* then the top 10 by MACCS_ts, descending.  GenMACCSKeys is applied to    *)
(* every parse result as it is; on None it raises ArgumentError.           *)
(***************************************************************************)
MACCSCell ==
    /\ UNCHANGED <<pubVars, qsarVars, alignVars, embedVars, dbVars, lipinski_csv>>
    /\ pc = "maccs"
    /\ LET rdkitmol == [i \in Rows(dataset) |-> MolFromSmiles(dataset["smiles"][i])]
           d1 == SetCol(dataset, "rdkitmol", rdkitmol)
       IN IF \E i \in Rows(dataset) : IsNone(rdkitmol[i])
          THEN /\ dataset' = d1
               /\ nullUse' = nullUse \cup {"GenMACCSKeys"}
               /\ Halt("maccs", "ArgumentError")
          ELSE LET fps == [i \in Rows(dataset) |-> GenMACCSKeys(rdkitmol[i])]
                   ts == [i \in Rows(dataset) |-> TanimotoSimilarity(MACCQuery, fps[i])]
               IN /\ dataset' = SetCol(SetCol(d1, "MACCS_fps", fps), "MACCS_ts", ts)
                  /\ \E v \in sort_values(ts, FALSE) : out' = View("MACCS_ts", head(v))
                  /\ pc' = "morgan_fps"
                  /\ UNCHANGED <<raised, nullUse>>
    /\ UNCHANGED <<MACCQuery, MorganQuery, progress, ro5_properties>>
    /\ UNCHANGED <<chembl_requests, hits_csv, query_h>>

\* A Morgan_fps cell whose featurizer writes into one bit vector it never
\* clears: each row also carries the bits of the rows before it.
MorganFpsCellCarry ==
    /\ UNCHANGED <<pubVars, qsarVars, alignVars, embedVars, dbVars, lipinski_csv>>
    /\ pc = "morgan_fps"
    /\ dataset' = SetCol(dataset, "Morgan_fps",
                    [i \in Rows(dataset) |->
                        [b \in Bits |->
                            IF \E j \in 1..i :
                                  GetMorganFingerprintAsBitVect(dataset["rdkitmol"][j])[b] = 1
                            THEN 1 ELSE 0]])
    /\ out' = NoView
    /\ pc' = "morgan_ts"
    /\ UNCHANGED <<MACCQuery, MorganQuery, raised, nullUse, progress, ro5_properties>>
    /\ UNCHANGED <<chembl_requests, hits_csv, query_h>>

(***************************************************************************)
(* Cell: dataset['Morgan_fps'].                                            *)
(***************************************************************************)
MorganFpsCell ==
    /\ UNCHANGED <<pubVars, qsarVars, alignVars, embedVars, dbVars, lipinski_csv>>
    /\ pc = "morgan_fps"
    /\ dataset' = SetCol(dataset, "Morgan_fps",
                    [i \in Rows(dataset) |->
                        GetMorganFingerprintAsBitVect(dataset["rdkitmol"][i])])
    /\ out' = NoView
    /\ pc' = "morgan_ts"
    /\ UNCHANGED <<MACCQuery, MorganQuery, raised, nullUse, progress, ro5_properties>>
    /\ UNCHANGED <<chembl_requests, hits_csv, query_h>>

(***************************************************************************)
(* Cell: dataset['Morgan_ts'], then the top 10 by Morgan_ts, descending.   *)
(***************************************************************************)
MorganTsCell ==
    /\ UNCHANGED <<pubVars, qsarVars, alignVars, embedVars, dbVars, lipinski_csv>>
    /\ pc = "morgan_ts"
    /\ LET ts == [i \in Rows(dataset) |->
                     FingerprintSimilarity(MorganQuery, dataset["Morgan_fps"][i])]
       IN /\ dataset' = SetCol(dataset, "Morgan_ts", ts)
          /\ \E v \in sort_values(ts, FALSE) : out' = View("Morgan_ts", head(v))
    /\ pc' = "shape"
    /\ UNCHANGED <<MACCQuery, MorganQuery, raised, nullUse, progress, ro5_properties>>
    /\ UNCHANGED <<chembl_requests, hits_csv, query_h>>

(***************************************************************************)
(* Cell: dataset['ShapeSimilarity'] = dataset['rdkitmol'].progress_apply(  *)
(*   lambda x: embed_optimize_align_molecule(x, query_h, num_conformers=2))*)
(* The rows are scored in order; an exception out of the function ends the *)
(* apply and the column is not assigned.                                   *)
(***************************************************************************)
ShapeCell ==
    /\ UNCHANGED <<pubVars, qsarVars, alignVars, dbVars, lipinski_csv>>
    /\ pc = "shape"
    /\ \E o \in EmbedChoices(dataset["rdkitmol"]) :
          LET res == [i \in Rows(dataset) |->
                         embed_optimize_align_molecule(dataset["rdkitmol"][i], o[i])]
              bad == {i \in Rows(dataset) : res[i].k \notin {"num", "none"}}
              first == CHOOSE i \in bad : \A j \in bad : i <= j
              reached == IF bad = {} THEN Rows(dataset) ELSE 1..first
          IN /\ conformers' = [i \in reached |-> o[i]]
             /\ o3a_calls' = [i \in reached |->
                                 IF IsNone(dataset["rdkitmol"][i]) THEN 0
                                 ELSE O3ACalls(o[i], 1)]
             /\ IF bad = {}
                THEN /\ dataset' = SetCol(dataset, "ShapeSimilarity", SeriesFromApply(res))
                     /\ progress' = NRows(dataset)
                     /\ pc' = "shape_rank"
                     /\ out' = NoView
                     /\ UNCHANGED raised
                ELSE /\ progress' = first - 1
                     /\ Halt("shape", res[first].k)
                     /\ UNCHANGED dataset
    /\ UNCHANGED <<MACCQuery, MorganQuery, nullUse, ro5_properties>>
    /\ UNCHANGED <<chembl_requests, hits_csv, query_h>>

(***************************************************************************)
(* Cell: dataset.sort_values(by='ShapeSimilarity', ascending=True)[:10].   *)
(***************************************************************************)
ShapeRankCell ==
    /\ UNCHANGED <<pubVars, qsarVars, alignVars, embedVars, dbVars, lipinski_csv>>
    /\ pc = "shape_rank"
    /\ \E v \in sort_values(dataset["ShapeSimilarity"], TRUE) :
          out' = View("ShapeSimilarity", head(v))
    /\ pc' = "grid"
    /\ UNCHANGED <<dataset, MACCQuery, MorganQuery, raised, nullUse, progress,
                   ro5_properties, chembl_requests, hits_csv, query_h>>

(***************************************************************************)
(* Cell: molecules_to_show = dataset.sort_values(by='ShapeSimilarity',     *)
(*   ascending=True).iloc[:10]; fig, axes = plt.subplots(2, 5);            *)
(*   for i, ax in enumerate(axes.ravel()):                                 *)
(*       mol = molecules_to_show['rdkitmol'].iloc[i]; ...                  *)
(* The frame is sorted again, and the loop reads one row per subplot:      *)
(* .iloc[i] past the last row raises IndexError.                           *)
(***************************************************************************)
GridCell ==
    /\ UNCHANGED <<pubVars, qsarVars, alignVars, embedVars, dbVars, lipinski_csv>>
    /\ pc = "grid"
    /\ \E v \in sort_values(dataset["ShapeSimilarity"], TRUE) :
          LET molecules_to_show == head(v)
          IN IF Len(molecules_to_show) < GRID_ROWS * GRID_COLS
             THEN Halt("grid", "IndexError")
             ELSE /\ out' = View("ShapeSimilarity", molecules_to_show)
                  /\ pc' = "ro5"
                  /\ UNCHANGED raised
    /\ UNCHANGED <<dataset, MACCQuery, MorganQuery, nullUse, progress,
                   ro5_properties, chembl_requests, hits_csv, query_h>>

(***************************************************************************)
(* Cell: ro5_properties = dataset['rdkitmol'].apply(calculate_ro5_properties)*)
(***************************************************************************)
Ro5Cell ==
    /\ UNCHANGED <<pubVars, qsarVars, alignVars, embedVars, dbVars, lipinski_csv>>
    /\ pc = "ro5"
    /\ ro5_properties' = [i \in Rows(dataset) |->
                             calculate_ro5_properties(dataset["rdkitmol"][i])]
    /\ out' = NoView
    /\ pc' = "concat"
    /\ UNCHANGED <<dataset, MACCQuery, MorganQuery, raised, nullUse, progress>>
    /\ UNCHANGED <<chembl_requests, hits_csv, query_h>>

(***************************************************************************)
(* Cell: MoleculeDatabase = pd.concat([dataset, ro5_properties], axis=1).  *)
(***************************************************************************)
ConcatCell ==
    /\ UNCHANGED <<pubVars, qsarVars, alignVars, embedVars, lipinski_csv>>
    /\ pc = "concat"
    /\ MoleculeDatabase' = concat(dataset, ro5_properties)
    /\ pc' = "ro5_filter"
    /\ UNCHANGED <<dataset, MACCQuery, MorganQuery, out, raised, nullUse, progress,
                   ro5_properties, chembl_requests, hits_csv, query_h>>
    /\ UNCHANGED <<MoleculeDatabase_ro5_fulfilled, MoleculeDatabase_ro5_violated,
                   ro5_stdout>>

(***************************************************************************)
(* Cell: MoleculeDatabase_ro5_fulfilled =                                  *)
(*           MoleculeDatabase[MoleculeDatabase['ro5_fulfilled']]           *)
(*       MoleculeDatabase_ro5_violated =                                   *)
(*           MoleculeDatabase[~MoleculeDatabase['ro5_fulfilled']]          *)
(*       and three prints: the shape[0] of the three frames.               *)
(***************************************************************************)
Ro5FilterCell ==
    /\ UNCHANGED <<pubVars, qsarVars, alignVars, embedVars, lipinski_csv>>
    /\ pc = "ro5_filter"
    /\ MoleculeDatabase_ro5_fulfilled' = ro5_fulfilled_rows(MoleculeDatabase)
    /\ MoleculeDatabase_ro5_violated' = ro5_violated_rows(MoleculeDatabase)
    /\ ro5_stdout' = <<Len(MoleculeDatabase),
                       Len(ro5_fulfilled_rows(MoleculeDatabase)),
                       Len(ro5_violated_rows(MoleculeDatabase))>>
    /\ pc' = "save"
    /\ UNCHANGED <<dataset, MACCQuery, MorganQuery, out, raised, nullUse, progress,
                   ro5_properties, chembl_requests, hits_csv, query_h>>
    /\ UNCHANGED MoleculeDatabase

(***************************************************************************)
(* Cell: MoleculeDatabase_ro5_fulfilled.to_csv(                            *)
(*           'MoleculeDatabase_compounds_lipinski.csv')                    *)
(***************************************************************************)
SaveCell ==
    /\ UNCHANGED <<pubVars, qsarVars, alignVars, embedVars, dbVars>>
    /\ pc = "save"
    /\ lipinski_csv' = Csv(to_csv(MoleculeDatabase_ro5_fulfilled))
    /\ pc' = "done"
    /\ UNCHANGED <<dataset, MACCQuery, MorganQuery, out, raised, nullUse, progress,
                   ro5_properties, chembl_requests, hits_csv, query_h>>

Next ==
    \/ ChEMBLCell
    \/ MACCSCell
    \/ MorganFpsCell
    \/ MorganTsCell
    \/ ShapeCell
    \/ ShapeRankCell
    \/ GridCell
    \/ Ro5Cell
    \/ ConcatCell
    \/ Ro5FilterCell
    \/ SaveCell

Spec == Init /\ [][Next]_vars

(***************************************************************************)
(* The example alignment of the screening notebook: mol2 ('CCC=O', with    *)
(* the conformers EmbedMultipleConfs(mol2, numConfs=25) gave it) aligned   *)
(* on mol1 ('CCO'), one loop iteration per step, followed by one call of   *)
(* embed_optimize_align_molecule on a molecule's conformers.               *)
(*   best_alignment_score = float('inf')                                   *)
(*   for cid in range(mol2.GetNumConformers()):                            *)
(*       o3a = AllChem.GetO3A(mol2, mol1, prbCid=cid)                      *)
(*       o3a.Align(); alignment_score = o3a.Align()                        *)
(*       if alignment_score < best_alignment_score:                        *)
(*           best_alignment_score = alignment_score                        *)
(*   print("The best alignment score is:", best_alignment_score)           *)
(***************************************************************************)
\* The scores the conformers of mol2 can get: the embedding is not seeded.
Mol2Scores ==
    UNION {[1..n -> 1..NScore] : n \in 0..Min(MaxConfs, MOL2_NUM_CONFS)}

BestAlignmentStart ==
    /\ UNCHANGED <<screenVars, pubVars, qsarVars, lipinski_csv>>
    /\ al_pc = "start"
    /\ best_alignment_score' = PosInf
    /\ loop_cid' = 0
    /\ al_pc' = "loop"
    /\ UNCHANGED <<mol2_scores, align_stdout, fn_input, fn_result>>

\* An iteration that keeps the score of the conformer it has just aligned.
BestAlignmentIterationKeepLast ==
    /\ UNCHANGED <<screenVars, pubVars, qsarVars, lipinski_csv>>
    /\ al_pc = "loop"
    /\ loop_cid < Len(mol2_scores)
    /\ best_alignment_score' = Num(mol2_scores[loop_cid + 1], 1)
    /\ loop_cid' = loop_cid + 1
    /\ UNCHANGED <<al_pc, mol2_scores, align_stdout, fn_input, fn_result>>

\* One pass of the loop body, for conformer id loop_cid (counted from 0).
BestAlignmentIteration ==
    /\ UNCHANGED <<screenVars, pubVars, qsarVars, lipinski_csv>>
    /\ al_pc = "loop"
    /\ loop_cid < Len(mol2_scores)
    /\ LET alignment_score == Num(mol2_scores[loop_cid + 1], 1)
       IN best_alignment_score' =
              IF Lt(alignment_score, best_alignment_score)
              THEN alignment_score ELSE best_alignment_score
    /\ loop_cid' = loop_cid + 1
    /\ UNCHANGED <<al_pc, mol2_scores, align_stdout, fn_input, fn_result>>

BestAlignmentPrint ==
    /\ UNCHANGED <<screenVars, pubVars, qsarVars, lipinski_csv>>
    /\ al_pc = "loop"
    /\ loop_cid = Len(mol2_scores)
    /\ align_stdout' = <<best_alignment_score>>
    /\ al_pc' = "call"
    /\ UNCHANGED <<mol2_scores, loop_cid, best_alignment_score, fn_input, fn_result>>

\* embed_optimize_align_molecule(mol, query_h, num_conformers=2) on a parsed
\* molecule, for every outcome of its embedding and alignments.
EmbedAlignCall ==
    /\ UNCHANGED <<screenVars, pubVars, qsarVars, lipinski_csv>>
    /\ al_pc = "call"
    /\ \E o \in AllOutcomes :
          /\ fn_input' = o
          /\ fn_result' = embed_optimize_align_molecule(
                              MolFromSmiles(Smiles(DefaultGraph)), o)
    /\ al_pc' = "done"
    /\ UNCHANGED <<mol2_scores, loop_cid, best_alignment_score, align_stdout>>

AlignInit ==
    /\ al_pc = "start"
    /\ mol2_scores \in Mol2Scores
    /\ loop_cid = 0
    /\ best_alignment_score = PosInf
    /\ align_stdout = <<>>
    /\ fn_input = <<>>
    /\ fn_result = NoneVal
    /\ ScreenIdle
    /\ PubIdle
    /\ QsarIdle
    /\ lipinski_csv = NoCsv

AlignNext ==
    \/ BestAlignmentStart
    \/ BestAlignmentIteration
    \/ BestAlignmentPrint
    \/ EmbedAlignCall

SpecAlignment == AlignInit /\ [][AlignNext]_vars

(***************************************************************************)
(* The PubChem notebook.  requests.get blocks until the service answers or *)
(* the connection fails; what comes back is the network's choice:          *)
(*   kind "json"   : a JSON body (the table asked for, or PubChem's Fault  *)
(*                   object for an identifier it cannot resolve);          *)
(*   kind "png", "text" : the image or the plain-text list asked for;      *)
(*   kind "page"   : an error page that is not JSON (a gateway's);         *)
(*   kind "failed" : no answer, requests.get raises ConnectionError.       *)
(* json is what r.json() parses, text what r.text / r.content hold.        *)
(***************************************************************************)
Names == {"ibuprofen", "aspirin", "no-such-compound"}
CIDs == {"3672", "2244"}
Weights == {"206.28", "180.16"}

Fault == [Fault |-> "PUGREST.NotFound"]
NoJson == [NotJSON |-> "x"]
Answer(status, kind, json, text) ==
    [status |-> status, kind |-> kind, json |-> json, text |-> text]
FailedAnswers == {Answer(0, "failed", NoJson, "")}
ErrorPages == {Answer(503, "page", NoJson, "<html>503 Service Unavailable</html>")}
FaultAnswers == {Answer(404, "json", Fault, "{Fault}")}
CidAnswers ==
    {Answer(200, "json", [IdentifierList |-> [CID |-> <<c>>]], "{IdentifierList}") :
        c \in CIDs}
WeightAnswers ==
    {Answer(200, "json",
            [PropertyTable |-> [Properties |-> <<[MolecularWeight |-> w]>>]],
            "{PropertyTable}") : w \in Weights}
PngAnswers == {Answer(200, "png", NoJson, "<png>")}
CidListAnswers ==
    {Answer(200, "text", NoJson, "9875401 6433119"), Answer(200, "text", NoJson, "")}
TimeoutAnswers == {Answer(504, "text", NoJson, "Status: 504 PUGREST.Timeout")}

\* One requests.get: the cell, the argument in its URL, and what came back.
Request(cell, arg, a) == [cell |-> cell, arg |-> arg, answer |-> a]

\* A lookup that does not look for the table.
LookupNoCheck(a, table) ==
    IF a.kind = "failed" THEN "ConnectionError"
    ELSE IF a.kind # "json" THEN "JSONDecodeError"
    ELSE ""

\* What a lookup cell raises on answer a, "" when it goes on: requests.get
\* raises on a failed connection, r.json() on a body that is not JSON, and
\* the cell itself raises ValueError when the table is not in the response.
LookupRaises(a, table) ==
    IF a.kind = "failed" THEN "ConnectionError"
    ELSE IF a.kind # "json" THEN "JSONDecodeError"
    ELSE IF table \notin DOMAIN a.json THEN "ValueError"
    ELSE ""

PubHalt(cell, exc) ==
    /\ pub_pc' = "halt"
    /\ pub_raised' = [cell |-> cell, exc |-> exc]

\* The value a lookup reads out of the response; on a body without the
\* table the read is a KeyError.
TableValue(a, table) ==
    IF table \notin DOMAIN a.json THEN "KeyError"
    ELSE IF table = "IdentifierList" THEN a.json[table].CID[1]
    ELSE a.json[table].Properties[1].MolecularWeight

(***************************************************************************)
(* Cell "Get PubChem CID by name".  The name is the cell's literal, which  *)
(* the reader of the notebook edits.                                       *)
(***************************************************************************)
NameToCidCell ==
    /\ UNCHANGED <<screenVars, qsarVars, alignVars, lipinski_csv>>
    /\ pub_pc = "name"
    /\ \E n \in Names,
          a \in CidAnswers \cup FaultAnswers \cup ErrorPages \cup FailedAnswers :
          LET exc == LookupRaises(a, "IdentifierList")
          IN /\ name' = n
             /\ requests' = Append(requests, Request("name", n, a))
             /\ IF exc # ""
                THEN /\ PubHalt("name", exc)
                     /\ UNCHANGED <<cid, stdout>>
                ELSE /\ cid' = TableValue(a, "IdentifierList")
                     /\ stdout' = Append(stdout, <<"PubChem CID for", n, cid'>>)
                     /\ pub_pc' = "weight"
                     /\ UNCHANGED pub_raised
    /\ UNCHANGED mol_weight

(***************************************************************************)
(* Cell "Get molecular weight": cid = "3672" first, then the lookup.       *)
(***************************************************************************)
MolecularWeightCell ==
    /\ UNCHANGED <<screenVars, qsarVars, alignVars, lipinski_csv>>
    /\ pub_pc = "weight"
    /\ cid' = "3672"
    /\ \E a \in WeightAnswers \cup FaultAnswers \cup ErrorPages \cup FailedAnswers :
          LET exc == LookupRaises(a, "PropertyTable")
          IN /\ requests' = Append(requests, Request("weight", cid', a))
             /\ IF exc # ""
                THEN /\ PubHalt("weight", exc)
                     /\ UNCHANGED <<mol_weight, stdout>>
                ELSE /\ mol_weight' = TableValue(a, "PropertyTable")
                     /\ stdout' = Append(stdout,
                                         <<"Molecular weight for", name, mol_weight'>>)
                     /\ pub_pc' = "png"
                     /\ UNCHANGED pub_raised
    /\ UNCHANGED name

(***************************************************************************)
(* Cell "Depict a compound": r.raise_for_status() raises HTTPError on a    *)
(* 4xx or 5xx status, before anything is printed or displayed.             *)
(***************************************************************************)
PngCell ==
    /\ UNCHANGED <<screenVars, qsarVars, alignVars, lipinski_csv>>
    /\ pub_pc = "png"
    /\ \E a \in PngAnswers \cup FaultAnswers \cup ErrorPages \cup FailedAnswers :
          /\ requests' = Append(requests, Request("png", cid, a))
          /\ IF a.kind = "failed"
             THEN PubHalt("png", "ConnectionError") /\ UNCHANGED stdout
             ELSE IF a.status >= 400
             THEN PubHalt("png", "HTTPError") /\ UNCHANGED stdout
             ELSE /\ stdout' = stdout \o <<<<"The 2D structure of", name, "">>,
                                           <<"Image", a.text, "">>>>
                  /\ pub_pc' = "similarity"
                  /\ UNCHANGED pub_raised
    /\ UNCHANGED <<name, cid, mol_weight>>

(***************************************************************************)
(* Cell "Similarity search": response = requests.get(url);                 *)
(* print(response.text).  Neither the status nor the body is looked at.    *)
(***************************************************************************)
SimilarityCell ==
    /\ UNCHANGED <<screenVars, qsarVars, alignVars, lipinski_csv>>
    /\ pub_pc = "similarity"
    /\ \E a \in CidListAnswers \cup TimeoutAnswers \cup ErrorPages \cup FailedAnswers :
          /\ requests' = Append(requests, Request("similarity", "smiles", a))
          /\ IF a.kind = "failed"
             THEN PubHalt("similarity", "ConnectionError") /\ UNCHANGED stdout
             ELSE /\ stdout' = Append(stdout, <<"print", a.text, "">>)
                  /\ pub_pc' = "done"
                  /\ UNCHANGED pub_raised
    /\ UNCHANGED <<name, cid, mol_weight>>

PubInit ==
    /\ pub_pc = "name"
    /\ PubFresh
    /\ ScreenIdle
    /\ AlignIdle
    /\ lipinski_csv = NoCsv
    /\ QsarIdle

PubNext ==
    \/ NameToCidCell
    \/ MolecularWeightCell
    \/ PngCell
    \/ SimilarityCell

SpecPubChem == PubInit /\ [][PubNext]_vars

(***************************************************************************)
(* The QSAR notebook.  A table is a sequence of rows; a row is a function  *)
(* from column names to values, with                                       *)
(*   "label" : the row's index label,                                      *)
(*   "row"   : the line of the sheet the record was read from,             *)
(*   "na"    : the columns of the row that hold NaN.                       *)
(* A SMILES string stands for a molecular graph with its MACCS keys        *)
(* (frags), whether some atom has a formal charge, and its number of       *)
(* disconnected components (2: a salt or another mixture).                 *)
(***************************************************************************)
ToxGraph(frags, charged, components) ==
    [frags |-> frags, charged |-> charged, components |-> components]

ToxRow(i, cname, smiles, sev, na) ==
    ("label" :> i - 1) @@ ("row" :> i) @@ ("Compound Name" :> cname)
        @@ ("SMILES" :> smiles) @@ ("Severity Class" :> sev) @@ ("na" :> na)

\* Entries of short sheets: two clean compounds of different class, a second
\* record under the name of the first, a row with a NaN, a charged compound,
\* a neutral two-component compound, a string RDKit cannot parse.
ToxEntries ==
    {[cname |-> 1, smiles |-> Smiles(ToxGraph({1}, FALSE, 1)), sev |-> 1, na |-> {}],
     [cname |-> 2, smiles |-> Smiles(ToxGraph({2}, FALSE, 1)), sev |-> 2, na |-> {}],
     [cname |-> 1, smiles |-> Smiles(ToxGraph({1, 2}, FALSE, 1)), sev |-> 2, na |-> {}],
     [cname |-> 3, smiles |-> Smiles(ToxGraph({1}, FALSE, 1)), sev |-> 1,
      na |-> {"Severity Class"}],
     [cname |-> 4, smiles |-> Smiles(ToxGraph({2}, TRUE, 2)), sev |-> 1, na |-> {}],
     [cname |-> 5, smiles |-> Smiles(ToxGraph({1, 2}, FALSE, 2)), sev |-> 2, na |-> {}],
     [cname |-> 6, smiles |-> [wellformed |-> FALSE, g |-> ToxGraph({}, FALSE, 1)],
      sev |-> 1, na |-> {}]}

SheetOf(es) ==
    [i \in DOMAIN es |-> ToxRow(i, es[i].cname, es[i].smiles, es[i].sev, es[i].na)]
ShortSheets == {SheetOf(es) : es \in UNION {[1..n -> ToxEntries] : n \in 0..MaxTox}}

\* A clean compound of its own name; its keys vary with the line.
CleanRow(i, sev) ==
    ToxRow(i, 100 + i,
           Smiles(ToxGraph({b \in Bits : (i + b) % 3 = 0}, FALSE, 1)), sev, {})

\* Sheets around desired_size: a rows of class 1, then b rows of class 2.
TwoClassSheet(a, b) ==
    [i \in 1..(a + b) |-> CleanRow(i, IF i <= a THEN 1 ELSE 2)]
\* The same with the record of line 2 filed under the name of line 1.
SharedNameSheet(a, b) ==
    [i \in 1..(a + b) |->
        IF i = 2 THEN [TwoClassSheet(a, b)[2] EXCEPT
                          !["Compound Name"] = TwoClassSheet(a, b)[1]["Compound Name"]]
        ELSE TwoClassSheet(a, b)[i]]
LongSheets ==
    {TwoClassSheet(DESIRED_SIZE + k, MinorRows) : k \in {-1, 0, 1}}
    \cup {TwoClassSheet(MinorRows, DESIRED_SIZE + 1),
          TwoClassSheet(DESIRED_SIZE + 1, DESIRED_SIZE + 1),
          SharedNameSheet(DESIRED_SIZE, MinorRows)}

Sheets == ShortSheets \cup LongSheets

(***************************************************************************)
(* pandas operations on tables.                                            *)
(***************************************************************************)
\* reset_index(drop=True): the labels become 0..n-1.
reset_index(t) == [i \in DOMAIN t |-> [t[i] EXCEPT !["label"] = i - 1]]
\* dropna(): the rows without a NaN, with their labels.
dropna(t) == SelectSeq(t, LAMBDA x : x["na"] = {})
\* t[t[col] == v]
RowsWhere(t, col, v) == SelectSeq(t, LAMBDA x : x[col] = v)
\* t[col].value_counts().sort_index(): <<value, count>> by value, ascending.
value_counts_sorted(t, col) ==
    LET vals == Ascending({t[i][col] : i \in DOMAIN t})
    IN [k \in DOMAIN vals |-> <<vals[k], Len(RowsWhere(t, col, vals[k]))>>]
\* Series.idxmax(): the first index of the largest value (the series is not
\* empty).
idxmax(sc) ==
    LET k == CHOOSE k \in DOMAIN sc :
                 /\ \A j \in DOMAIN sc : sc[j][2] <= sc[k][2]
                 /\ \A j \in 1..(k - 1) : sc[j][2] < sc[k][2]
    IN sc[k][1]

RECURSIVE KSubsets(_, _)
\* The subsets of k elements of a finite set of integers.
KSubsets(S, k) ==
    IF k = 0 THEN {{}}
    ELSE IF S = {} THEN {}
    ELSE LET x == CHOOSE x \in S : \A y \in S : x <= y
         IN {D \cup {x} : D \in KSubsets(S \ {x}, k - 1)} \cup KSubsets(S \ {x}, k)

\* The rows of t at the places not in D.
WithoutPlaces(t, D) ==
    LET keep == Ascending(DOMAIN t \ D) IN [k \in DOMAIN keep |-> t[keep[k]]]

\* t.sample(n=n, random_state=42): n of the rows, which ones is the
\* generator's choice (the set is empty when n exceeds the population, and
\* pandas raises ValueError).  The order in which sample returns them is
\* not modelled: they are kept in table order.
sample(t, n) ==
    IF n > Len(t) THEN {}
    ELSE {WithoutPlaces(t, D) : D \in KSubsets(DOMAIN t, Len(t) - n)}

RECURSIVE ConcatAll(_)
\* pd.concat of a sequence of tables, labels kept.
ConcatAll(ts) == IF ts = <<>> THEN <<>> ELSE ts[1] \o ConcatAll(Tail(ts))

RECURSIVE MatchRows(_, _, _)
\* The rows of an inner merge for the left rows from place i on: each left
\* row joined with every right row of the same key, in left order.
MatchRows(left, right, i) ==
    IF i > Len(left) THEN <<>>
    ELSE LET hits == RowsWhere(right, "Compound Name", left[i]["Compound Name"])
         IN [k \in DOMAIN hits |->
                left[i] @@ ("smiles" :> hits[k]["smiles"])
                        @@ ("fingerprint" :> hits[k]["fingerprint"])]
            \o MatchRows(left, right, i + 1)

\* pd.merge(left, right, on='Compound Name'): an inner join with a new
\* 0..n-1 index.
merge(left, right) == reset_index(MatchRows(left, right, 1))

QHalt(cell, exc) ==
    /\ q_pc' = "halt"
    /\ q_raised' = [cell |-> cell, exc |-> exc]

(***************************************************************************)
(* Cell: df_tox_cleaned = df_tox.dropna().reset_index(drop=True).          *)
(***************************************************************************)
DropnaCell ==
    /\ UNCHANGED <<screenVars, pubVars, alignVars, lipinski_csv, candVars>>
    /\ q_pc = "dropna"
    /\ df_tox_cleaned' = reset_index(dropna(df_tox))
    /\ q_pc' = "charge"
    /\ UNCHANGED <<df_tox, severity_counts, most_populated_class, balanced_df,
                   severity_counts2, df_maccs, X, Y, X_train, X_test, Y_train,
                   Y_test, random_forest_model, fits, q_raised>>

(***************************************************************************)
(* Cell: keep the rows for which all(atom.GetFormalCharge() == 0 for atom  *)
(* in Chem.MolFromSmiles(x).GetAtoms()), then reset_index(drop=True).      *)
(* On a string that does not parse, None.GetAtoms() is an AttributeError.  *)
(***************************************************************************)
NoFormalCharge(m) == ~m.g.charged

ChargeFilterCell ==
    /\ UNCHANGED <<screenVars, pubVars, alignVars, lipinski_csv, candVars>>
    /\ q_pc = "charge"
    /\ IF \E i \in DOMAIN df_tox_cleaned :
             IsNone(MolFromSmiles(df_tox_cleaned[i]["SMILES"]))
       THEN /\ QHalt("charge", "AttributeError")
            /\ UNCHANGED df_tox_cleaned
       ELSE /\ df_tox_cleaned' =
                 reset_index(SelectSeq(df_tox_cleaned,
                     LAMBDA x : NoFormalCharge(MolFromSmiles(x["SMILES"]))))
            /\ q_pc' = "counts"
            /\ UNCHANGED q_raised
    /\ UNCHANGED <<df_tox, severity_counts, most_populated_class, balanced_df,
                   severity_counts2, df_maccs, X, Y, X_train, X_test, Y_train,
                   Y_test, random_forest_model, fits>>

(***************************************************************************)
(* Cell: severity_counts = df_tox_cleaned['Severity Class']                *)
(*                             .value_counts().sort_index().               *)
(***************************************************************************)
SeverityCountsCell ==
    /\ UNCHANGED <<screenVars, pubVars, alignVars, lipinski_csv, candVars>>
    /\ q_pc = "counts"
    /\ severity_counts' = value_counts_sorted(df_tox_cleaned, "Severity Class")
    /\ q_pc' = "undersample"
    /\ UNCHANGED <<df_tox, df_tox_cleaned, most_populated_class, balanced_df,
                   severity_counts2, df_maccs, X, Y, X_train, X_test, Y_train,
                   Y_test, random_forest_model, fits, q_raised>>

(***************************************************************************)
(* Cell: the undersampling loop.  most_populated_class = idxmax() (a       *)
(* ValueError on an empty series); then class by class, the sample of      *)
(* desired_size rows for the most populated class and all rows for the     *)
(* others are concatenated to balanced_df.  When the sample raises, the    *)
(* classes before it are already in balanced_df.                           *)
(***************************************************************************)
\* The loop's result when keep are the rows sampled from class most.
Undersampled(t, sc, most, keep) ==
    ConcatAll([k \in DOMAIN sc |->
                  IF sc[k][1] = most THEN keep
                  ELSE RowsWhere(t, "Severity Class", sc[k][1])])

UndersampleCell ==
    /\ UNCHANGED <<screenVars, pubVars, alignVars, lipinski_csv, candVars>>
    /\ q_pc = "undersample"
    /\ IF severity_counts = <<>>
       THEN /\ QHalt("undersample", "ValueError")
            /\ UNCHANGED <<most_populated_class, balanced_df>>
       ELSE LET most == idxmax(severity_counts)
                pool == RowsWhere(df_tox_cleaned, "Severity Class", most)
                before == SelectSeq(severity_counts, LAMBDA p : p[1] < most)
            IN /\ most_populated_class' = <<most>>
               /\ IF sample(pool, DESIRED_SIZE) = {}
                  THEN /\ balanced_df' = Undersampled(df_tox_cleaned, before, most, <<>>)
                       /\ QHalt("undersample", "ValueError")
                  ELSE /\ \E keep \in sample(pool, DESIRED_SIZE) :
                             balanced_df' =
                                 Undersampled(df_tox_cleaned, severity_counts, most, keep)
                       /\ q_pc' = "counts2"
                       /\ UNCHANGED q_raised
    /\ UNCHANGED <<df_tox, df_tox_cleaned, severity_counts, severity_counts2,
                   df_maccs, X, Y, X_train, X_test, Y_train, Y_test,
                   random_forest_model, fits>>

(***************************************************************************)
(* Cell: severity_counts2 = balanced_df['Severity Class']                  *)
(*                              .value_counts().sort_index().              *)
(***************************************************************************)
SeverityCounts2Cell ==
    /\ UNCHANGED <<screenVars, pubVars, alignVars, lipinski_csv, candVars>>
    /\ q_pc = "counts2"
    /\ severity_counts2' = value_counts_sorted(balanced_df, "Severity Class")
    /\ q_pc' = "fingerprints"
    /\ UNCHANGED <<df_tox, df_tox_cleaned, severity_counts, most_populated_class,
                   balanced_df, df_maccs, X, Y, X_train, X_test, Y_train,
                   Y_test, random_forest_model, fits, q_raised>>

(***************************************************************************)
(* Cell: for k, row in df_tox_cleaned.iterrows(): the MACCS fingerprint of *)
(* Chem.MolFromSmiles(row.SMILES), appended with the row's compound name   *)
(* and SMILES; df_maccs = pd.DataFrame(maccs_fingerprints_list).           *)
(***************************************************************************)
FingerprintsCell ==
    /\ UNCHANGED <<screenVars, pubVars, alignVars, lipinski_csv, candVars>>
    /\ q_pc = "fingerprints"
    /\ IF \E i \in DOMAIN df_tox_cleaned :
             IsNone(MolFromSmiles(df_tox_cleaned[i]["SMILES"]))
       THEN /\ QHalt("fingerprints", "ArgumentError")
            /\ UNCHANGED df_maccs
       ELSE /\ df_maccs' =
                 [i \in DOMAIN df_tox_cleaned |->
                     ("label" :> i - 1)
                     @@ ("Compound Name" :> df_tox_cleaned[i]["Compound Name"])
                     @@ ("smiles" :> df_tox_cleaned[i]["SMILES"])
                     @@ ("fingerprint" :>
                            GenMACCSKeys(MolFromSmiles(df_tox_cleaned[i]["SMILES"])))]
            /\ q_pc' = "merge"
            /\ UNCHANGED q_raised
    /\ UNCHANGED <<df_tox, df_tox_cleaned, severity_counts, most_populated_class,
                   balanced_df, severity_counts2, X, Y, X_train, X_test,
                   Y_train, Y_test, random_forest_model, fits>>

(***************************************************************************)
(* Cell: df_tox_cleaned = pd.merge(df_tox_cleaned, df_maccs,               *)
(*                                 on='Compound Name').                    *)
(* A df_maccs made from an empty list has no columns: KeyError.            *)
(***************************************************************************)
MergeCell ==
    /\ UNCHANGED <<screenVars, pubVars, alignVars, lipinski_csv, candVars>>
    /\ q_pc = "merge"
    /\ IF df_maccs = <<>>
       THEN /\ QHalt("merge", "KeyError")
            /\ UNCHANGED df_tox_cleaned
       ELSE /\ df_tox_cleaned' = merge(df_tox_cleaned, df_maccs)
            /\ q_pc' = "split"
            /\ UNCHANGED q_raised
    /\ UNCHANGED <<df_tox, severity_counts, most_populated_class, balanced_df,
                   severity_counts2, df_maccs, X, Y, X_train, X_test, Y_train,
                   Y_test, random_forest_model, fits>>

(***************************************************************************)
(* Cell: X = np.array(df_tox_cleaned['fingerprint'].to_list());            *)
(* Y = df_tox_cleaned['Severity Class'];                                   *)
(* X_train, X_test, Y_train, Y_test =                                      *)
(*     train_test_split(X, Y, test_size=0.2, random_state=42).             *)
(* The split shuffles the places 1..n and takes ceil(0.2 n) of them for    *)
(* the test set and the rest for training; it raises ValueError when the   *)
(* training set would be empty.  Which places go where is the generator's  *)
(* choice; the choices followed here are the runs of ceil(0.2 n)           *)
(* consecutive places that tile the table, and the last such run.  The     *)
(* order inside the two sets is not modelled: table order.                 *)
(***************************************************************************)
NTest(n) == (n * TEST_SIZE_PCT + 99) \div 100

\* A split that trains on every row, the test rows included.
train_test_split_leaky(n) ==
    IF n - NTest(n) < 1 THEN {}
    ELSE {[test |-> 1..NTest(n), train |-> 1..n]}

\* The test sets followed for n places.
TestRuns(n) ==
    {((j - 1) * NTest(n) + 1)..(j * NTest(n)) : j \in 1..(n \div NTest(n))}
    \cup {(n - NTest(n) + 1)..n}

train_test_split(n) ==
    IF n - NTest(n) < 1 THEN {}
    ELSE {[test |-> T, train |-> (1..n) \ T] : T \in TestRuns(n)}

\* The elements of s at the places P, in order.
AtPlaces(s, P) ==
    LET ps == Ascending(P) IN [k \in DOMAIN ps |-> s[ps[k]]]
\* The row labels of a target series.
Labels(ys) == {ys[i].label : i \in DOMAIN ys}

SplitCell ==
    /\ UNCHANGED <<screenVars, pubVars, alignVars, lipinski_csv, candVars>>
    /\ q_pc = "split"
    /\ X' = [i \in DOMAIN df_tox_cleaned |-> df_tox_cleaned[i]["fingerprint"]]
    /\ Y' = [i \in DOMAIN df_tox_cleaned |->
                [label |-> df_tox_cleaned[i]["label"],
                 y |-> df_tox_cleaned[i]["Severity Class"]]]
    /\ IF train_test_split(Len(df_tox_cleaned)) = {}
       THEN /\ QHalt("split", "ValueError")
            /\ UNCHANGED <<X_train, X_test, Y_train, Y_test>>
       ELSE /\ \E part \in train_test_split(Len(df_tox_cleaned)) :
                  /\ X_train' = AtPlaces(X', part.train)
                  /\ X_test' = AtPlaces(X', part.test)
                  /\ Y_train' = AtPlaces(Y', part.train)
                  /\ Y_test' = AtPlaces(Y', part.test)
            /\ q_pc' = "fit"
            /\ UNCHANGED q_raised
    /\ UNCHANGED <<df_tox, df_tox_cleaned, severity_counts, most_populated_class,
                   balanced_df, severity_counts2, df_maccs, random_forest_model,
                   fits>>

(***************************************************************************)
(* Estimator fits.  A fit is recorded with the cell that ran it, the       *)
(* estimator's parameters, the labels of the rows it was fitted on and the *)
(* labels of the rows it then predicted.                                   *)
(***************************************************************************)
Fit(cell, ne, rs, ys, ts) ==
    [cell |-> cell, n_estimators |-> ne, random_state |-> rs,
     fit_rows |-> Labels(ys), score_rows |-> Labels(ts)]

\* KFold(n_splits=5), no shuffling: fold k of n samples is a run of
\* n div 5 places, one more in the first n mod 5 folds.
FoldStart(n, k) == (k - 1) * (n \div N_SPLITS) + Min(k - 1, n % N_SPLITS) + 1
Fold(n, k) == FoldStart(n, k)..(FoldStart(n, k + 1) - 1)

\* cross_val_score(estimator, xs, ys, cv=5): a clone of the estimator is
\* fitted on the samples outside each fold and scored on the fold.
cross_val_score(cell, ne, rs, ys) ==
    {Fit(cell, ne, rs, AtPlaces(ys, DOMAIN ys \ Fold(Len(ys), k)),
         AtPlaces(ys, Fold(Len(ys), k))) : k \in 1..N_SPLITS}

(***************************************************************************)
(* Cell: random_forest_model = RandomForestRegressor(n_estimators=100,     *)
(* random_state=42); random_forest_model.fit(X_train, Y_train);            *)
(* Y_pred_rf = random_forest_model.predict(X_test); the metrics.           *)
(***************************************************************************)
FitCell ==
    /\ UNCHANGED <<screenVars, pubVars, alignVars, lipinski_csv, candVars>>
    /\ q_pc = "fit"
    /\ random_forest_model' =
          [fitted |-> TRUE, n_estimators |-> N_ESTIMATORS,
           random_state |-> RANDOM_STATE, rows |-> Labels(Y_train)]
    /\ fits' = fits \cup {Fit("fit", N_ESTIMATORS, RANDOM_STATE, Y_train, Y_test)}
    /\ q_pc' = "cv"
    /\ UNCHANGED <<df_tox, df_tox_cleaned, severity_counts, most_populated_class,
                   balanced_df, severity_counts2, df_maccs, X, Y, X_train,
                   X_test, Y_train, Y_test, q_raised>>

(***************************************************************************)
(* Cell: cv_scores_rf = cross_val_score(random_forest_model, X_train,      *)
(* Y_train, cv=5, ...).  Fewer than 5 samples: ValueError.                 *)
(***************************************************************************)
CrossValidationCell ==
    /\ UNCHANGED <<screenVars, pubVars, alignVars, lipinski_csv, candVars>>
    /\ q_pc = "cv"
    /\ IF Len(Y_train) < N_SPLITS
       THEN /\ QHalt("cv", "ValueError")
            /\ UNCHANGED fits
       ELSE /\ fits' = fits \cup cross_val_score("cv",
                           random_forest_model.n_estimators,
                           random_forest_model.random_state, Y_train)
            /\ q_pc' = "tune"
            /\ UNCHANGED q_raised
    /\ UNCHANGED <<df_tox, df_tox_cleaned, severity_counts, most_populated_class,
                   balanced_df, severity_counts2, df_maccs, X, Y, X_train,
                   X_test, Y_train, Y_test, random_forest_model>>

\* A tuning cell whose function rebinds the global estimator (as with a
\* `global random_forest_model` statement): the last estimator it made,
\* never fitted, is what the notebook is left with.
HyperparameterCellGlobal ==
    /\ UNCHANGED <<screenVars, pubVars, alignVars, lipinski_csv, candVars>>
    /\ q_pc = "tune"
    /\ fits' = fits \cup UNION {cross_val_score("tune", ne, i, Y_train) :
                                  ne \in {20, 50, 100, 200, 500},
                                  i \in 0..(TUNE_SEEDS - 1)}
    /\ random_forest_model' =
          [fitted |-> FALSE, n_estimators |-> 500,
           random_state |-> TUNE_SEEDS - 1, rows |-> {}]
    /\ q_pc' = "load"
    /\ UNCHANGED <<df_tox, df_tox_cleaned, severity_counts, most_populated_class,
                   balanced_df, severity_counts2, df_maccs, X, Y, X_train,
                   X_test, Y_train, Y_test, q_raised>>

(***************************************************************************)
(* Cells: performance_by_hyperparameter(n_estimators, random_state), which *)
(* cross-validates a new estimator (a local of the function) on X_train,   *)
(* Y_train, and the loop that calls it for n_estimators in [20, 50, 100,   *)
(* 200, 500] and i in range(5).                                            *)
(***************************************************************************)
N_ESTIMATORS_GRID == {20, 50, 100, 200, 500}

performance_by_hyperparameter(ne, rs) == cross_val_score("tune", ne, rs, Y_train)

HyperparameterCell ==
    /\ UNCHANGED <<screenVars, pubVars, alignVars, lipinski_csv, candVars>>
    /\ q_pc = "tune"
    /\ fits' = fits \cup UNION {performance_by_hyperparameter(ne, i) :
                                  ne \in N_ESTIMATORS_GRID, i \in 0..(TUNE_SEEDS - 1)}
    /\ q_pc' = "load"
    /\ UNCHANGED <<df_tox, df_tox_cleaned, severity_counts, most_populated_class,
                   balanced_df, severity_counts2, df_maccs, X, Y, X_train,
                   X_test, Y_train, Y_test, random_forest_model, q_raised>>

(***************************************************************************)
(* Step 2: the toxicity model applied to the screening candidates.         *)
(***************************************************************************)
\* The names of step 1, which the cells of step 2 but the last two leave.
trainVars == <<df_tox, df_tox_cleaned, severity_counts, most_populated_class,
               balanced_df, severity_counts2, df_maccs, Y, X_train, X_test,
               Y_train, Y_test, random_forest_model, fits>>

\* pd.read_csv(file): the rows of the file under a new RangeIndex, the
\* file's unnamed first column kept as a column.
read_csv(file) ==
    [i \in DOMAIN file.rows |-> file.rows[i] @@ ("index" :> i - 1)]

\* t[columns]: the table with these columns only (and its index).
Select(t, columns) ==
    [i \in DOMAIN t |-> [c \in columns \cup {"index"} |-> t[i][c]]]

\* random_forest_model.predict on one feature vector: a function of the
\* fitted estimator (its parameters and the rows it was fitted on) and of
\* the vector.
predict(model, x) ==
    [n_estimators |-> model.n_estimators, random_state |-> model.random_state,
     fit_rows |-> model.rows, x |-> x]

(***************************************************************************)
(* Cell: Dataset = pd.read_csv('MoleculeDatabase_compounds_lipinski.csv'). *)
(***************************************************************************)
LoadCandidatesCell ==
    /\ UNCHANGED <<screenVars, pubVars, alignVars, lipinski_csv>>
    /\ q_pc = "load"
    /\ IF ~lipinski_csv.written
       THEN /\ QHalt("load", "FileNotFoundError")
            /\ UNCHANGED Dataset
       ELSE /\ Dataset' = read_csv(lipinski_csv)
            /\ q_pc' = "select"
            /\ UNCHANGED q_raised
    /\ UNCHANGED <<trainVars, X, Dataset2, candidates>>

(***************************************************************************)
(* Cell: columns = ['chembl_id', 'smiles'];                                *)
(*       Dataset2 = Dataset[columns].copy().                               *)
(***************************************************************************)
SelectColumnsCell ==
    /\ UNCHANGED <<screenVars, pubVars, alignVars, lipinski_csv>>
    /\ q_pc = "select"
    /\ Dataset2' = Select(Dataset, {"chembl_id", "smiles"})
    /\ q_pc' = "cand_fps"
    /\ UNCHANGED <<trainVars, X, Dataset, candidates, q_raised>>

\* A candidates cell that featurizes with Morgan fingerprints.
CandidateFingerprintsCellMorgan ==
    /\ UNCHANGED <<screenVars, pubVars, alignVars, lipinski_csv>>
    /\ q_pc = "cand_fps"
    /\ candidates' =
          [i \in DOMAIN Dataset2 |->
              ("index" :> i - 1)
              @@ ("chembl_id" :> Dataset2[i]["chembl_id"])
              @@ ("fingerprints" :>
                     GetMorganFingerprintAsBitVect(MolFromSmiles(Dataset2[i]["smiles"])))
              @@ ("smiles" :> Dataset2[i]["smiles"])]
    /\ q_pc' = "cand_X"
    /\ UNCHANGED q_raised
    /\ UNCHANGED <<trainVars, X, Dataset, Dataset2>>

(***************************************************************************)
(* Cell: for k, row in Dataset2.iterrows():                                *)
(*           mol = Chem.MolFromSmiles(row['smiles'])                       *)
(*           maccs_fingerprints = AllChem.GetMACCSKeysFingerprint(mol)     *)
(*           append {"chembl_id", "fingerprints", "smiles"}                *)
(*       candidates = pd.DataFrame.from_records(maccs_fingerprints_list)   *)
(***************************************************************************)
CandidateFingerprintsCell ==
    /\ UNCHANGED <<screenVars, pubVars, alignVars, lipinski_csv>>
    /\ q_pc = "cand_fps"
    /\ IF \E i \in DOMAIN Dataset2 : IsNone(MolFromSmiles(Dataset2[i]["smiles"]))
       THEN /\ QHalt("cand_fps", "ArgumentError")
            /\ UNCHANGED candidates
       ELSE /\ candidates' =
                 [i \in DOMAIN Dataset2 |->
                     ("index" :> i - 1)
                     @@ ("chembl_id" :> Dataset2[i]["chembl_id"])
                     @@ ("fingerprints" :>
                            GenMACCSKeys(MolFromSmiles(Dataset2[i]["smiles"])))
                     @@ ("smiles" :> Dataset2[i]["smiles"])]
            /\ q_pc' = "cand_X"
            /\ UNCHANGED q_raised
    /\ UNCHANGED <<trainVars, X, Dataset, Dataset2>>

(***************************************************************************)
(* Cell: X = np.array(candidates['fingerprints'].to_list()).  The global X *)
(* of step 1 is rebound.  A candidates frame made from an empty list has   *)
(* no columns: KeyError.                                                   *)
(***************************************************************************)
CandidateFeaturesCell ==
    /\ UNCHANGED <<screenVars, pubVars, alignVars, lipinski_csv>>
    /\ q_pc = "cand_X"
    /\ IF candidates = <<>>
       THEN /\ QHalt("cand_X", "KeyError")
            /\ UNCHANGED X
       ELSE /\ X' = [i \in DOMAIN candidates |-> candidates[i]["fingerprints"]]
            /\ q_pc' = "predict"
            /\ UNCHANGED q_raised
    /\ UNCHANGED <<trainVars, Dataset, Dataset2, candidates>>

(***************************************************************************)
(* Cell: candidates['Predicted_Severity'] = random_forest_model.predict(X).*)
(* An estimator that was not fitted raises NotFittedError.                 *)
(***************************************************************************)
PredictCell ==
    /\ UNCHANGED <<screenVars, pubVars, alignVars, lipinski_csv>>
    /\ q_pc = "predict"
    /\ IF ~random_forest_model.fitted
       THEN /\ QHalt("predict", "NotFittedError")
            /\ UNCHANGED candidates
       ELSE /\ candidates' =
                 [i \in DOMAIN candidates |->
                     candidates[i] @@ ("Predicted_Severity" :>
                                          predict(random_forest_model, X[i]))]
            /\ q_pc' = "done"
            /\ UNCHANGED q_raised
    /\ UNCHANGED <<trainVars, X, Dataset, Dataset2>>

(***************************************************************************)
(* The inputs of the QSAR notebook: the sheet, and the file the screening  *)
(* notebook left in the working directory.                                 *)
(***************************************************************************)
\* The file the screening notebook's cells write for a corpus: the parse,
\* the Ro5 cell, the concat, the filter and the save.  (The fingerprint and
\* score columns, which step 2 never selects, are left out.)
ScreenedFile(corpus) ==
    LET mols == [i \in DOMAIN corpus |-> MolFromSmiles(corpus[i])]
        df == [c \in {"smiles", "rdkitmol"} |->
                  IF c = "smiles" THEN corpus ELSE mols]
        props == [i \in DOMAIN corpus |-> calculate_ro5_properties(mols[i])]
    IN Csv(to_csv(ro5_fulfilled_rows(concat(df, props))))

\* No file; the file of a corpus whose records all comply; the files of the
\* corpora with one compliant record (the first, the last) or none.
LipinskiFiles ==
    {NoCsv, ScreenedFile(LongCorpus(TopK + 1, {}))}
    \cup {ScreenedFile(DescCorpus(k)) : k \in 0..2}

QsarInputs ==
    {[sheet |-> s, file |-> ScreenedFile(DescCorpus(0))] : s \in Sheets}
    \cup {[sheet |-> TwoClassSheet(DESIRED_SIZE, MinorRows), file |-> f] :
             f \in LipinskiFiles}

QsarInit ==
    /\ q_pc = "dropna"
    /\ \E inp \in QsarInputs :
          /\ df_tox = inp.sheet
          /\ lipinski_csv = inp.file
    /\ QsarFresh
    /\ ScreenIdle
    /\ AlignIdle
    /\ PubIdle

QsarNext ==
    \/ DropnaCell
    \/ ChargeFilterCell
    \/ SeverityCountsCell
    \/ UndersampleCell
    \/ SeverityCounts2Cell
    \/ FingerprintsCell
    \/ MergeCell
    \/ SplitCell
    \/ FitCell
    \/ CrossValidationCell
    \/ HyperparameterCell
    \/ LoadCandidatesCell
    \/ SelectColumnsCell
    \/ CandidateFingerprintsCell
    \/ CandidateFeaturesCell
    \/ PredictCell

SpecQSAR == QsarInit /\ [][QsarNext]_vars

(***************************************************************************)
(* Properties of the screening notebook (specification Spec).              *)
(***************************************************************************)
OnBits(v) == {i \in DOMAIN v : v[i] = 1}
One == Num(1, 1)
ScoreColumns == {"MACCS_ts", "Morgan_ts", "ShapeSimilarity"}

\* The Ro5 conditions a descriptor record violates.
Ro5Violations(r) ==
    Cardinality({c \in {"mw", "hba", "hbd", "logp", "tpsa"} :
        \/ c = "mw" /\ ~(r.molecular_weight <= 500)
        \/ c = "hba" /\ ~(r.n_hba <= 10)
        \/ c = "hbd" /\ ~(r.n_hbd <= 5)
        \/ c = "logp" /\ ~(r.logp <= 5)
        \/ c = "tpsa" /\ ~(r.TPSA < 140)})

\* C1: the Lipinski filter accepts a molecule iff at least 4 of the 5
\* conditions hold: ro5_fulfilled is True iff no more than one condition is
\* violated.
C1_Ro5FourOfFive ==
    \A i \in DOMAIN ro5_properties :
        ro5_properties[i].ro5_fulfilled <=> Ro5Violations(ro5_properties[i]) <= 1

\* C2: the shape-screening batch never aborts: the cell does not raise, every
\* row is processed, and every row's result is a numeric score or the
\* sentinel.
C2_BatchNeverAborts ==
    /\ raised.cell # "shape"
    /\ HasCol(dataset, "ShapeSimilarity") =>
          /\ progress = NRows(dataset)
          /\ \A i \in Rows(dataset) :
                dataset["ShapeSimilarity"][i].k \in {"num", "nan", "none"}

\* Two rows carry the same score (two sentinels count as the same).
SameScore(a, b) == Eq(a, b) \/ (IsNA(a) /\ IsNA(b))

\* C3: ranking is a stable sort: in every ranked view, two candidates with
\* equal score appear in the same relative order as in the unsorted corpus.
C3_RankingStable ==
    out.by # "" =>
        \A a, b \in DOMAIN out.rows :
            (a < b /\ SameScore(dataset[out.by][out.rows[a]],
                                dataset[out.by][out.rows[b]]))
                => out.rows[a] < out.rows[b]

\* Score a is strictly better than score b in the ranking by column by:
\* lower for the RMSD-like ShapeSimilarity, higher for the Tanimoto scores.
Better(by, a, b) == IF by = "ShapeSimilarity" THEN Lt(a, b) ELSE Lt(b, a)

\* C4: the top-K view is ordered descending for MACCS_ts and Morgan_ts and
\* ascending for ShapeSimilarity, has exactly min(10, n) rows, and no
\* candidate left out of it has a strictly better score than one inside.
C4_TopKOrdered ==
    out.by # "" =>
        LET col == dataset[out.by]
            v == out.rows
        IN /\ out.by \in ScoreColumns
           /\ Len(v) = Min(10, NRows(dataset))
           /\ Range(v) \subseteq Rows(dataset)
           /\ \A a, b \in DOMAIN v :
                 a < b => /\ v[a] # v[b]
                          /\ ~Better(out.by, col[v[b]], col[v[a]])
           /\ \A j \in Rows(dataset) \ Range(v) :
                 \A a \in DOMAIN v : ~Better(out.by, col[j], col[v[a]])

\* C4's case: more than ten candidates ranked by ShapeSimilarity, and one
\* that is left out scores strictly worse than one in the slice.
C4_Witness ==
    /\ out.by = "ShapeSimilarity"
    /\ NRows(dataset) > 10
    /\ Len(out.rows) = 10
    /\ \E j \in Rows(dataset) \ Range(out.rows) :
          \E a \in DOMAIN out.rows :
              Lt(dataset[out.by][out.rows[a]], dataset[out.by][j])

\* C5: a null parse result is checked for before the molecule is used: no
\* featurizer, descriptor, hydrogen-addition or atom-iteration call is ever
\* made on a null molecule.
C5_NullCheckedBeforeUse == nullUse = {}

\* C6: the scores of the corpus form a total order permitting ties: any two
\* scores of a score column compare, one way or the other.
C6_ScoresTotalOrder ==
    \A c \in ScoreColumns \cap DOMAIN dataset :
        \A i, j \in Rows(dataset) :
            Leq(dataset[c][i], dataset[c][j]) \/ Leq(dataset[c][j], dataset[c][i])

\* Score s is |A and B| / |A or B| (where some bit is set) and lies in [0, 1].
IsIntersectionOverUnion(A, B, s) ==
    LET inter == Cardinality(OnBits(A) \cap OnBits(B))
        union == Cardinality(OnBits(A) \cup OnBits(B))
    IN /\ IsNum(s)
       /\ s.d > 0
       /\ union > 0 => s.n * union = inter * s.d
       /\ 0 <= s.n
       /\ s.n <= s.d

\* C7: the Tanimoto score of MACCS_ts and Morgan_ts equals (bits set in
\* both) / (bits set in either) and lies in [0, 1].
C7_TanimotoFormula ==
    /\ HasCol(dataset, "MACCS_ts") =>
          \A i \in Rows(dataset) :
              IsIntersectionOverUnion(MACCQuery, dataset["MACCS_fps"][i],
                                      dataset["MACCS_ts"][i])
    /\ HasCol(dataset, "Morgan_ts") =>
          \A i \in Rows(dataset) :
              IsIntersectionOverUnion(MorganQuery, dataset["Morgan_fps"][i],
                                      dataset["Morgan_ts"][i])

\* C7's case: both score columns are computed and a candidate shares some but
\* not all of the bits with the query, in each of them.
C7_Witness ==
    /\ HasCol(dataset, "Morgan_ts")
    /\ \E i \in Rows(dataset) :
          /\ Lt(Num(0, 1), dataset["MACCS_ts"][i])
          /\ Lt(dataset["MACCS_ts"][i], One)
    /\ \E i \in Rows(dataset) :
          /\ Lt(Num(0, 1), dataset["Morgan_ts"][i])
          /\ Lt(dataset["Morgan_ts"][i], One)

\* C8: the Tanimoto score is exactly 1.0 iff the two vectors are identical
\* bit for bit, also when neither has a bit set.
C8_OneIffIdentical ==
    /\ HasCol(dataset, "MACCS_ts") =>
          \A i \in Rows(dataset) :
              Eq(dataset["MACCS_ts"][i], One) <=> MACCQuery = dataset["MACCS_fps"][i]
    /\ HasCol(dataset, "Morgan_ts") =>
          \A i \in Rows(dataset) :
              Eq(dataset["Morgan_ts"][i], One) <=> MorganQuery = dataset["Morgan_fps"][i]

\* C8's case: the query and a candidate both have no bit set, and the
\* candidate is scored.
C8_Witness ==
    /\ HasCol(dataset, "MACCS_ts")
    /\ OnBits(MACCQuery) = {}
    /\ \E i \in Rows(dataset) : OnBits(dataset["MACCS_fps"][i]) = {}

\* C9: the Tanimoto score is symmetric: the score computed with the query as
\* first argument is the score with the query as second argument.
C9_TanimotoSymmetric ==
    /\ HasCol(dataset, "MACCS_ts") =>
          \A i \in Rows(dataset) :
              Eq(dataset["MACCS_ts"][i],
                 TanimotoSimilarity(dataset["MACCS_fps"][i], MACCQuery))
    /\ HasCol(dataset, "Morgan_ts") =>
          \A i \in Rows(dataset) :
              Eq(dataset["Morgan_ts"][i],
                 FingerprintSimilarity(dataset["Morgan_fps"][i], MorganQuery))

\* C9's case: a scored candidate that shares a bit with the query and has a
\* different number of bits set.
C9_Witness ==
    /\ HasCol(dataset, "MACCS_ts")
    /\ \E i \in Rows(dataset) :
          /\ OnBits(MACCQuery) \cap OnBits(dataset["MACCS_fps"][i]) # {}
          /\ Cardinality(OnBits(MACCQuery))
                # Cardinality(OnBits(dataset["MACCS_fps"][i]))

(***************************************************************************)
(* Properties of the PubChem notebook (specification SpecPubChem).         *)
(***************************************************************************)
RequestsOf(cell) == SelectSeq(requests, LAMBDA r : r.cell = cell)
PrintedBy(label) == {i \in DOMAIN stdout : stdout[i][1] = label}
\* The cell has been run (to its end or to an exception).
HasRun(cell) ==
    IF cell = "name" THEN pub_pc # "name"
    ELSE \/ pub_pc \in {"png", "similarity", "done"}
         \/ pub_pc = "halt" /\ pub_raised.cell # "name"

\* The lookup cell issues one request, and on a response without its table
\* it raises ValueError, leaves its result variable as it was and prints
\* nothing.
LookupIsTerminal(cell, table, result, label) ==
    LET rs == RequestsOf(cell)
    IN /\ Len(rs) = (IF HasRun(cell) THEN 1 ELSE 0)
       /\ (Len(rs) = 1 /\ rs[1].answer.kind = "json"
              /\ table \notin DOMAIN rs[1].answer.json)
             => /\ pub_pc = "halt"
                /\ pub_raised = [cell |-> cell, exc |-> "ValueError"]
                /\ result = Unassigned
                /\ PrintedBy(label) = {}

\* C10: a PubChem lookup of an unfetchable identifier is terminal and
\* unretried: each lookup cell issues exactly one request, and when the
\* response lacks IdentifierList / PropertyTable the cell raises ValueError,
\* cid / mol_weight is not assigned from the response and the final print
\* is not executed.
C10_LookupTerminalUnretried ==
    /\ LookupIsTerminal("name", "IdentifierList", cid, "PubChem CID for")
    /\ LookupIsTerminal("weight", "PropertyTable", mol_weight, "Molecular weight for")

\* C10's case: the CID-to-MolecularWeight lookup got PubChem's Fault object.
C10_Witness ==
    /\ pub_raised = [cell |-> "weight", exc |-> "ValueError"]
    /\ Len(RequestsOf("weight")) = 1
    /\ "Fault" \in DOMAIN RequestsOf("weight")[1].answer.json

\* The service answered a request with an error response.
IsErrorResponse(a) == a.kind # "failed" /\ a.status >= 400
\* What a PubChem cell put on the page.
ShownBy(cell) ==
    {i \in DOMAIN stdout :
        stdout[i][1] \in (IF cell = "png" THEN {"The 2D structure of", "Image"}
                          ELSE IF cell = "similarity" THEN {"print"}
                          ELSE {})}

\* C11: every external request treats a failed fetch as a terminal error:
\* when the service answered the PNG, fastsimilarity_2d or ChEMBL request
\* with an error response, the cell raised and did not use the error body as
\* its result (no display, no printed list, no hits file).
C11_FailedFetchIsTerminal ==
    /\ \A i \in DOMAIN requests :
          (requests[i].cell \in {"png", "similarity"}
               /\ IsErrorResponse(requests[i].answer))
             => /\ pub_pc = "halt"
                /\ pub_raised.cell = requests[i].cell
                /\ ShownBy(requests[i].cell) = {}
    /\ \A i \in DOMAIN chembl_requests :
          IsErrorResponse(chembl_requests[i].answer)
             => /\ pc = "halt"
                /\ raised.cell = "chembl"
                /\ ~hits_csv.written

\* A step leaves the stored molecules, the row order and the query as they are.
CorpusFrame ==
    /\ dataset'["smiles"] = dataset["smiles"]
    /\ HasCol(dataset, "rdkitmol") => dataset'["rdkitmol"] = dataset["rdkitmol"]
    /\ query_h' = query_h
\* The score of a record depends on the record alone: two rows holding the
\* same molecule have the same score, wherever they stand in the corpus.
ScorePerRecord ==
    \A c \in ScoreColumns \cap DOMAIN dataset :
        \A i, j \in Rows(dataset) :
            dataset["smiles"][i] = dataset["smiles"][j]
                => SameScore(dataset[c][i], dataset[c][j])

\* C12: the corpus is immutable during a scoring pass and no mutable state
\* crosses record boundaries: no cell modifies the stored molecules, the row
\* order or query_h, and the score of a record is the same whatever other
\* records are in the corpus and wherever it stands among them.
C12_CorpusImmutable == [][CorpusFrame]_vars /\ []ScorePerRecord

ShapeReached(i) ==
    IF raised.cell = "shape" THEN i <= progress + 1
    ELSE HasCol(dataset, "ShapeSimilarity")
\* No embedding of the molecule yields a conformer.
CannotEmbed(m) == ~IsNone(m) /\ m.g.shape = {<<>>}

\* C15: embed_optimize_align_molecule returns None whenever the embedding
\* or optimization of the molecule was unsuccessful: for every row the batch
\* got to whose molecule cannot be embedded, the call returned and the row's
\* result is the sentinel.
C15_NoneOnEmbeddingFailure ==
    \A i \in Rows(dataset) :
        (HasCol(dataset, "rdkitmol") /\ ShapeReached(i)
            /\ CannotEmbed(dataset["rdkitmol"][i]))
          => /\ raised.cell # "shape"
             /\ HasCol(dataset, "ShapeSimilarity")
             /\ IsNA(dataset["ShapeSimilarity"][i])

(***************************************************************************)
(* Properties of the QSAR notebook (specification SpecQSAR).               *)
(***************************************************************************)
\* The run has got past the cells named: none of them is still to run and
\* none of them raised.
Past(cells) ==
    /\ q_pc \notin cells \cup {"off"}
    /\ q_raised.cell \notin cells
PreparationCells == {"dropna", "charge"}
UpToUndersample == PreparationCells \cup {"counts", "undersample"}
UpToMerge == UpToUndersample \cup {"counts2", "fingerprints", "merge"}
UpToSplit == UpToMerge \cup {"split"}
\* The lines of the sheet the rows of a table came from.
SheetRows(t) == {t[i]["row"] : i \in DOMAIN t}

\* C14: after the dataset-preparation cells the cleaned table has no row
\* with a NaN field, no compound with a formally charged atom and no salt
\* (multi-component compound), and its index is 0..n-1.
C14_CleanedTable ==
    Past(PreparationCells) =>
        \A i \in DOMAIN df_tox_cleaned :
            /\ df_tox_cleaned[i]["na"] = {}
            /\ ~df_tox_cleaned[i]["SMILES"].g.charged
            /\ df_tox_cleaned[i]["SMILES"].g.components = 1
            /\ df_tox_cleaned[i]["label"] = i - 1

\* C17: after the undersampling loop every severity class of balanced_df
\* has at most desired_size (40) instances.
C17_EveryClassAtMostDesired ==
    Past(UpToUndersample) =>
        \A c \in {balanced_df[i]["Severity Class"] : i \in DOMAIN balanced_df} :
            Len(RowsWhere(balanced_df, "Severity Class", c)) <= 40

\* The undersampling cell has been run, to its end or to an exception.
UndersampleRan ==
    /\ q_pc \notin {"off", "dropna", "charge", "counts", "undersample"}
    /\ q_raised.cell \notin {"dropna", "charge", "counts"}

\* C18: the undersampling loop completes without error for every
\* distribution of class counts, and balanced_df then holds exactly
\* desired_size (40) distinct rows of the most populated class and all rows
\* of every other class, each original row at most once.
C18_OnlyMostPopulatedReduced ==
    UndersampleRan =>
        /\ q_raised.cell # "undersample"
        /\ Len(most_populated_class) = 1
        /\ Cardinality(SheetRows(balanced_df)) = Len(balanced_df)
        /\ SheetRows(balanced_df) \subseteq SheetRows(df_tox_cleaned)
        /\ \A k \in DOMAIN severity_counts :
              LET c == severity_counts[k][1]
                  kept == SheetRows(RowsWhere(balanced_df, "Severity Class", c))
              IN IF c = most_populated_class[1]
                 THEN Cardinality(kept) = 40
                 ELSE kept = SheetRows(RowsWhere(df_tox_cleaned, "Severity Class", c))

\* C19: the class-balanced table is the data the model is built from: the
\* rows fingerprinted, the rows of X and Y and the rows split into training
\* and test set are exactly the rows of balanced_df.
C19_ModelBuiltFromBalanced ==
    Past(UpToSplit) =>
        /\ Len(df_maccs) = Len(balanced_df)
        /\ Len(X) = Len(balanced_df)
        /\ Len(Y) = Len(balanced_df)
        /\ SheetRows(df_tox_cleaned) = SheetRows(balanced_df)
        /\ Len(Y_train) + Len(Y_test) = Len(balanced_df)

\* C20: the merge on 'Compound Name' preserves the records one-to-one: the
\* merged table has as many rows as the cleaned table before the merge (one
\* fingerprint record was made per row), and each row carries the
\* fingerprint computed from its own SMILES, also when two rows share a
\* compound name.
C20_MergeOneToOne ==
    Past(UpToMerge) =>
        /\ Len(df_tox_cleaned) = Len(df_maccs)
        /\ \A i \in DOMAIN df_tox_cleaned :
              /\ df_tox_cleaned[i]["smiles"] = df_tox_cleaned[i]["SMILES"]
              /\ df_tox_cleaned[i]["fingerprint"]
                    = GenMACCSKeys(MolFromSmiles(df_tox_cleaned[i]["SMILES"]))

\* C16: held-out discipline: the test rows are disjoint from the training
\* rows and no estimator is ever fitted on one of them: the fit of the
\* final model, the folds of the cross-validation and of every tuning run
\* take their rows from X_train / Y_train, and the test rows are only
\* predicted, by the final model.
\* X still holds the features of the training table: step 2 rebinds it to
\* the candidates' features.
XIsTrainingTable == q_pc \notin {"predict", "done"} /\ q_raised.cell # "predict"

C16_HeldOutDiscipline ==
    Past(UpToSplit) =>
        /\ Labels(Y_train) \cap Labels(Y_test) = {}
        /\ Labels(Y_train) \cup Labels(Y_test) = Labels(Y)
        /\ Labels(Y_test) # {}
        /\ Len(X_train) = Len(Y_train) /\ Len(X_test) = Len(Y_test)
        /\ XIsTrainingTable =>
              /\ \A k \in DOMAIN Y_train : X_train[k] = X[Y_train[k].label + 1]
              /\ \A k \in DOMAIN Y_test : X_test[k] = X[Y_test[k].label + 1]
        /\ \A f \in fits :
              /\ f.fit_rows \subseteq Labels(Y_train)
              /\ f.fit_rows \cap Labels(Y_test) = {}
              /\ f.score_rows \cap f.fit_rows = {}
              /\ IF f.cell = "fit" THEN f.score_rows = Labels(Y_test)
                 ELSE f.score_rows \subseteq Labels(Y_train)
        /\ random_forest_model.fitted => random_forest_model.rows = Labels(Y_train)

\* C16's case: the final fit, the cross-validation and the tuning loop have
\* all run on a split table.
C16_Witness ==
    /\ q_pc = "done"
    /\ Labels(Y_test) # {}
    /\ {f.cell : f \in fits} = {"fit", "cv", "tune"}
    /\ random_forest_model.fitted

(***************************************************************************)
(* C23.  In the ascending ShapeSimilarity ranking (the top-10 cell and the *)
(* grid cell) a row holding the no-result sentinel is never ahead of a row *)
(* with a numeric score, and a sentinel row is in the top-10 slice only    *)
(* when fewer than 10 rows have a numeric score, all of them in the slice. *)
(***************************************************************************)
NumericRows == {i \in Rows(dataset) : IsNum(dataset["ShapeSimilarity"][i])}
SentinelRows == {i \in Rows(dataset) : IsNA(dataset["ShapeSimilarity"][i])}

C23_SentinelNeverAhead ==
    out.by = "ShapeSimilarity" =>
        /\ \A a, b \in DOMAIN out.rows :
              a < b /\ out.rows[a] \in SentinelRows => out.rows[b] \in SentinelRows
        /\ (\E a \in DOMAIN out.rows : out.rows[a] \in SentinelRows) =>
              /\ Cardinality(NumericRows) < 10
              /\ NumericRows \subseteq Range(out.rows)

\* The grid cell has shown ten numeric rows while the first record of the
\* corpus, which holds the sentinel, is left out of the slice.
C23_Witness ==
    /\ pc = "ro5"
    /\ out.by = "ShapeSimilarity"
    /\ Len(out.rows) = 10
    /\ 1 \in SentinelRows
    /\ 1 \notin Range(out.rows)
    /\ Range(out.rows) \subseteq NumericRows

(***************************************************************************)
(* C25.  In embed_optimize_align_molecule one failing conformer discards   *)
(* the molecule: when GetO3A raises ValueError for conformer k, the result *)
(* is None whatever conformers 0..k-1 scored, and no conformer after k is  *)
(* tried (GetO3A was called k+1 times).  Checked on every row the shape    *)
(* batch scored; k is counted from 1 here.                                 *)
(***************************************************************************)
FirstFailure(o) ==
    {k \in DOMAIN o : o[k].raises /\ \A j \in 1..(k - 1) : ~o[j].raises}

C25_FailureDiscardsMolecule ==
    HasCol(dataset, "ShapeSimilarity") =>
        \A i \in Rows(dataset) : \A k \in FirstFailure(conformers[i]) :
            /\ IsNA(dataset["ShapeSimilarity"][i])
            /\ o3a_calls[i] = k

\* A molecule whose first conformer aligned with a score and whose second
\* conformer raised.
C25_Witness ==
    /\ HasCol(dataset, "ShapeSimilarity")
    /\ \E i \in Rows(dataset) :
          /\ Len(conformers[i]) = 2
          /\ ~conformers[i][1].raises
          /\ conformers[i][2].raises
          /\ IsNA(dataset["ShapeSimilarity"][i])

(***************************************************************************)
(* C24.  MoleculeDatabase_ro5_fulfilled and MoleculeDatabase_ro5_violated  *)
(* partition MoleculeDatabase: once the filter cell has run, every row of  *)
(* MoleculeDatabase is in exactly one of the two frames, the frames hold   *)
(* nothing else, and the two printed counts sum to the unfiltered count.   *)
(***************************************************************************)
FilterRan == pc \in {"save", "done"}
Occurrences(t, row) == Cardinality({i \in DOMAIN t : t[i] = row})

C24_Ro5Partition ==
    FilterRan =>
        /\ \A i \in DOMAIN MoleculeDatabase :
              Occurrences(MoleculeDatabase_ro5_fulfilled, MoleculeDatabase[i])
                + Occurrences(MoleculeDatabase_ro5_violated, MoleculeDatabase[i]) = 1
        /\ Range(MoleculeDatabase_ro5_fulfilled) \cup Range(MoleculeDatabase_ro5_violated)
              = Range(MoleculeDatabase)
        /\ ro5_stdout = <<Len(MoleculeDatabase), Len(MoleculeDatabase_ro5_fulfilled),
                          Len(MoleculeDatabase_ro5_violated)>>
        /\ ro5_stdout[2] + ro5_stdout[3] = ro5_stdout[1]

\* The filter cell has run on a database with rows on both sides.
C24_Witness ==
    /\ FilterRan
    /\ MoleculeDatabase_ro5_fulfilled # <<>>
    /\ MoleculeDatabase_ro5_violated # <<>>
    /\ Len(MoleculeDatabase) > 10

(***************************************************************************)
(* C26.  The best alignment score is the minimum over the conformers: in   *)
(* the mol2-against-mol1 loop, after conformers 0..k best_alignment_score  *)
(* is the smallest score recorded so far (float('inf') before the first)   *)
(* and no iteration increases it; embed_optimize_align_molecule, when      *)
(* every conformer aligns and it returns a value, returns the smallest of  *)
(* the per-conformer scores.                                               *)
(***************************************************************************)
SmallestSoFar ==
    IF loop_cid = 0 THEN PosInf
    ELSE Num(SeqMin(SubSeq(mol2_scores, 1, loop_cid)), 1)
BestIsSmallestSoFar ==
    al_pc \in {"loop", "call", "done"} => best_alignment_score = SmallestSoFar
NeverIncreases ==
    al_pc = "loop" => Leq(best_alignment_score', best_alignment_score)
ReturnsSmallest ==
    (/\ al_pc = "done"
     /\ \A k \in DOMAIN fn_input : ~fn_input[k].raises
     /\ fn_result.k \in {"num", "none"})
        => fn_result = Num(SeqMin([k \in DOMAIN fn_input |-> fn_input[k].score]), 1)

C26_BestIsMinimum ==
    /\ []BestIsSmallestSoFar
    /\ [][NeverIncreases]_vars
    /\ []ReturnsSmallest

\* The loop met its smallest score on the second of three or more conformers,
\* and the function was given two conformers with different scores.
C26_Witness ==
    /\ al_pc = "done"
    /\ Len(mol2_scores) >= 3
    /\ mol2_scores[2] < mol2_scores[1]
    /\ mol2_scores[2] < mol2_scores[3]
    /\ align_stdout = <<Num(mol2_scores[2], 1)>>
    /\ Len(fn_input) = 2
    /\ ~fn_input[1].raises /\ ~fn_input[2].raises
    /\ fn_input[1].score < fn_input[2].score
    /\ fn_result = Num(fn_input[1].score, 1)

(***************************************************************************)
(* C21.  The filter precedes the toxicity scoring: every candidate that    *)
(* gets a Predicted_Severity is a row of                                   *)
(* MoleculeDatabase_compounds_lipinski.csv, the file holds only rows whose *)
(* ro5_fulfilled flag is True, and so no molecule the Lipinski filter      *)
(* rejects (calculate_ro5_properties gives it ro5_fulfilled = False) is    *)
(* scored by the toxicity model.                                           *)
(***************************************************************************)
Scored == {i \in DOMAIN candidates : "Predicted_Severity" \in DOMAIN candidates[i]}
FileHoldsOnlyFulfilled ==
    \A k \in DOMAIN lipinski_csv.rows : lipinski_csv.rows[k]["ro5_fulfilled"]

\* Under Spec: the file the save cell writes is, on the columns step 2 reads
\* and the flag, the file ScreenedFile gives for the corpus.
KeyColumns(t) ==
    [i \in DOMAIN t |-> [c \in {"chembl_id", "smiles", "ro5_fulfilled"} |-> t[i][c]]]
SavedFileIsScreenedFile ==
    lipinski_csv.written /\ pc = "done" =>
        KeyColumns(lipinski_csv.rows)
            = KeyColumns(ScreenedFile(dataset["smiles"]).rows)

C21_FilterPrecedesScoring ==
    /\ FileHoldsOnlyFulfilled
    /\ \A i \in Scored :
          /\ \E k \in DOMAIN lipinski_csv.rows :
                /\ lipinski_csv.rows[k]["chembl_id"] = candidates[i]["chembl_id"]
                /\ lipinski_csv.rows[k]["smiles"] = candidates[i]["smiles"]
          /\ calculate_ro5_properties(
                 MolFromSmiles(candidates[i]["smiles"])).ro5_fulfilled

\* The one scored candidate is the eleventh record of its corpus: the ten
\* records before it were rejected by the filter.
C21_Witness ==
    /\ q_pc = "done"
    /\ Scored = {1}
    /\ candidates[1]["chembl_id"] = TopK + 1

(***************************************************************************)
(* C22.  The model that predicts the candidates' severity is the one       *)
(* fitted on X_train with n_estimators=100 and random_state=42: from the   *)
(* fit cell on, through the cross-validation cell and the                  *)
(* performance_by_hyperparameter calls, the global random_forest_model is  *)
(* that fitted estimator, and every prediction is made by it.              *)
(***************************************************************************)
FittedModel ==
    [fitted |-> TRUE, n_estimators |-> 100, random_state |-> 42,
     rows |-> Labels(Y_train)]

C22_PredictorIsTheFittedModel ==
    /\ Past(UpToSplit \cup {"fit"}) => random_forest_model = FittedModel
    /\ \A i \in Scored :
          /\ candidates[i]["Predicted_Severity"].n_estimators = 100
          /\ candidates[i]["Predicted_Severity"].random_state = 42
          /\ candidates[i]["Predicted_Severity"].fit_rows = Labels(Y_train)

\* Candidates were scored after the cross-validation and the tuning loop
\* had fitted their own estimators.
C22_Witness ==
    /\ q_pc = "done"
    /\ Scored # {}
    /\ \E f \in fits : f.cell = "cv"
    /\ \E f \in fits : f.cell = "tune" /\ f.n_estimators = 500
    /\ random_forest_model = FittedModel

(***************************************************************************)
(* C27.  For every candidate row, the feature vector given to              *)
(* random_forest_model.predict is the MACCS fingerprint of the candidate's *)
(* SMILES, made by the featurizer that made the vectors the model was      *)
(* fitted on, and has their length.                                        *)
(***************************************************************************)
\* The fingerprints of the training table's molecules.
TrainingFingerprints ==
    {GenMACCSKeys(MolFromSmiles(df_tox_cleaned[r]["SMILES"])) :
        r \in DOMAIN df_tox_cleaned}

C27_SameFeaturizer ==
    \A i \in Scored :
        /\ candidates[i]["Predicted_Severity"].x
              = GenMACCSKeys(MolFromSmiles(candidates[i]["smiles"]))
        /\ \A j \in DOMAIN X_train :
              /\ X_train[j] \in TrainingFingerprints
              /\ Len(X_train[j]) = Len(candidates[i]["Predicted_Severity"].x)

\* Eleven candidates were scored by a model fitted on a non-empty X_train.
C27_Witness ==
    /\ q_pc = "done"
    /\ Cardinality(Scored) > 10
    /\ X_train # <<>>

====
